---------------------------- MODULE Spec2Model ----------------------------
(***************************************************************************)
(* Model of the component state updater of harmony-design                  *)
(* (harmony-design/mcp/tools/update_component_state.py) and of its         *)
(* composition validator (harmony-design/tools/validate_composition.py).   *)
(*                                                                         *)
(* The program's state is the file system under repo_root: one JSON state  *)
(* file per component, the transition-rules file and the files that        *)
(* file_exists prerequisites name.  One action models one invocation of    *)
(* update_state or of validate_transition; the environment creates the     *)
(* prerequisite files.  Where invocations of update_state overlap, one     *)
(* action models the part of an invocation between two accesses to the     *)
(* state file.  The composition validator is an object that loads a graph  *)
(* file and keeps the violations of its last validation; one action models *)
(* one call of one of its methods.  The E2E runner                         *)
(* (tests/e2e/run_e2e_tests.py) is modelled as a run of its main: one      *)
(* action per call main makes.                                             *)
(***************************************************************************)
EXTENDS Integers, Sequences, FiniteSets, TLC

(***************************************************************************)
(* JSON values as json.load builds them.  A value is tagged with its       *)
(* Python type; JSON null is Python's None.                                *)
(***************************************************************************)
None == [t |-> "null"]
Str(s) == [t |-> "str", s |-> s]
List(items) == [t |-> "list", items |-> items]
Dict(f) == [t |-> "dict", f |-> f]

EmptyMap == [k \in {} |-> None]

\* Python's truth value of a JSON value: `not v` is ~Truthy(v).
Truthy(v) ==
    CASE v.t = "null" -> FALSE
      [] v.t = "str"  -> v.s # ""
      [] v.t = "list" -> v.items # <<>>
      [] v.t = "dict" -> DOMAIN v.f # {}

\* d.get(key, default) on a dict value.
DictGet(d, key, default) ==
    IF key \in DOMAIN d.f THEN d.f[key] ELSE default

\* d[key] = value on a dict value (the key is added when absent).
DictSet(d, key, value) ==
    Dict([k \in (DOMAIN d.f) \cup {key} |-> IF k = key THEN value ELSE d.f[k]])

\* get(key, default) on a plain mapping of the rules file.
MapGet(m, key, default) ==
    IF key \in DOMAIN m THEN m[key] ELSE default

(***************************************************************************)
(* Paths under repo_root.                                                  *)
(***************************************************************************)
components_path == "harmony-design/components/"

\* components_path / f"{component_id}.state.json"
state_file(component_id) == components_path \o component_id \o ".state.json"

\* The placeholder of a path template; str.format replaces it.
Placeholder == "{component_id}"

\* prerequisite["path"].format(component_id=component_id): a template is the
\* sequence of its literal parts and placeholders.
RECURSIVE format(_, _)
format(template, component_id) ==
    IF template = <<>> THEN ""
    ELSE (IF Head(template) = Placeholder THEN component_id ELSE Head(template))
         \o format(Tail(template), component_id)


(***************************************************************************)
(* Python strings are TLA+ strings.  The operations that look inside a     *)
(* string (str.split, the substring test `a in b`, len) work on its        *)
(* characters: CharTable gives the characters of every string of the model *)
(* such an operation can meet, and join is the concatenation back.         *)
(***************************************************************************)
CharTable ==
    [s \in {"meta.owner", "meta", "owner", "me", "design", "draft"} |->
        CASE s = "meta.owner" -> <<"m", "e", "t", "a", ".", "o", "w", "n", "e", "r">>
          [] s = "meta"       -> <<"m", "e", "t", "a">>
          [] s = "owner"      -> <<"o", "w", "n", "e", "r">>
          [] s = "me"         -> <<"m", "e">>
          [] s = "design"     -> <<"d", "e", "s", "i", "g", "n">>
          [] s = "draft"      -> <<"d", "r", "a", "f", "t">>]

chars(s) == IF s = "" THEN <<>> ELSE CharTable[s]

RECURSIVE join(_)
join(cs) == IF cs = <<>> THEN "" ELSE Head(cs) \o join(Tail(cs))

\* The table spells every string it holds: its characters join back to it.
CharTableSpells == \A s \in DOMAIN CharTable : join(CharTable[s]) = s

\* str.split(sep) on the characters of a string, for a one-character sep.
RECURSIVE split(_, _)
split(cs, sep) ==
    IF \A i \in 1..Len(cs) : cs[i] # sep
    THEN <<cs>>
    ELSE LET i == CHOOSE j \in 1..Len(cs) :
                      cs[j] = sep /\ \A k \in 1..(j - 1) : cs[k] # sep
         IN  <<SubSeq(cs, 1, i - 1)>> \o split(SubSeq(cs, i + 1, Len(cs)), sep)

\* The substring test of `a in b` for two strings, on their characters.
is_substring(a, b) ==
    \E i \in 0..(Len(b) - Len(a)) : SubSeq(b, i + 1, i + Len(a)) = a

(***************************************************************************)
(* The outcome of a Python expression or call: a value, or an exception    *)
(* that propagates to the caller.                                          *)
(***************************************************************************)
Return(v) == [raised |-> FALSE, value |-> v]
Raise(e) == [raised |-> TRUE, exc |-> e]

\* `key in value`, key a string given by its characters.
contains(key, value) ==
    CASE value.t = "dict" -> Return(join(key) \in DOMAIN value.f)
      [] value.t = "list" ->
            Return(\E i \in 1..Len(value.items) : value.items[i] = Str(join(key)))
      [] value.t = "str"  -> Return(is_substring(key, chars(value.s)))
      [] value.t = "null" -> Raise("TypeError")

\* `value[key]`, key a string given by its characters.
getitem(value, key) ==
    CASE value.t = "dict" ->
            IF join(key) \in DOMAIN value.f
            THEN Return(value.f[join(key)]) ELSE Raise("KeyError")
      [] value.t = "list" -> Raise("TypeError")
      [] value.t = "str"  -> Raise("TypeError")
      [] value.t = "null" -> Raise("TypeError")

\* len(value)
len(value) ==
    CASE value.t = "dict" -> Return(Cardinality(DOMAIN value.f))
      [] value.t = "list" -> Return(Len(value.items))
      [] value.t = "str"  -> Return(Len(chars(value.s)))
      [] value.t = "null" -> Raise("TypeError")

\* value.get(key, default): only a dict has the method.
get(value, key, default) ==
    IF value.t = "dict" THEN Return(DictGet(value, key, default))
    ELSE Raise("AttributeError")

(***************************************************************************)
(* The state.                                                              *)
(*   fs       the files under repo_root: a function from the paths that    *)
(*            exist to their contents (a state file holds a JSON value)    *)
(*   now      the reading of the clock _get_timestamp takes                *)
(*   call     the last step taken: the operation and its arguments         *)
(*   result   what that operation returned, or the exception it raised     *)
(*   effects  the reads, prerequisite checks and writes it performed       *)
(*   repeats  how many times in a row that same call has been repeated     *)
(*   inflight the invocations of update_state that run side by side, each  *)
(*            with its arguments, its position in update_state and the     *)
(*            payload it loaded                                            *)
(*   validator the CompositionValidator object: its nodes by id, its edges *)
(*            and its violations                                           *)
(*   runner   a run of the E2E runner's main: the E2ETestRunner object     *)
(*            (profile, results), the workflows main was asked for and     *)
(*            those it has still to run, the values run_workflow returned  *)
(*            so far, main's position and the exit code of the process     *)
(***************************************************************************)
VARIABLES fs, now, call, result, effects, repeats, inflight, validator, runner

vars == <<fs, now, call, result, effects, repeats, inflight, validator, runner>>

\* The number of state-file writes a behaviour of the model may hold.
MaxTime == 2

\* The number of times a behaviour may repeat a validate_transition call.
MaxRepeats == 2

ComponentIds == {"button-primary", "card-basic"}

\* The invocations of update_state that may overlap, and one not yet made.
Invocations == {1, 2}
Idle == [pc |-> "idle"]

\* CompositionValidator.__init__: no nodes, no edges, no violations.
NewValidator == [nodes |-> EmptyMap, edges |-> <<>>, violations |-> <<>>]

\* E2ETestRunner.__init__ with main's arguments: no results, and main about
\* to set the driver up and run the workflows requested.
NewRunner(profile, workflows) ==
    [profile |-> profile, results |-> <<>>, pc |-> "setup",
     requested |-> workflows, workflows |-> workflows, returns |-> <<>>,
     exit |-> -1]

\* load_state_machine's default states, and a name outside them.
States == {"draft", "design_complete", "implemented", "validated"}
NewStates == States \cup {"archived"}

rules_file == "harmony-design/state-machine/transition-rules.json"
definition_file == "harmony-design/state-machine/definition.json"

\* The path template of the design file the rules of the tests require.
PenTemplate == <<components_path, Placeholder, ".pen">>

\* Path.exists()
exists(files, path) == path \in DOMAIN files

\* The file system with `content` written to `path`.
write(files, path, content) ==
    [p \in (DOMAIN files) \cup {path} |-> IF p = path THEN content ELSE files[p]]

\* The events an operation leaves in `effects`.
ReadEvent(path) == [op |-> "read", path |-> path]
WriteEvent(path) == [op |-> "write", path |-> path]
CheckEvent(prerequisite) == [op |-> "check", prerequisite |-> prerequisite]

(***************************************************************************)
(* ComponentStateUpdater.  Every operator takes the file system it runs    *)
(* on; one that performs I/O returns its outcome with the events it left.  *)
(***************************************************************************)

\* load_state_machine: the definition file's content, or the default states
\* with no transitions.
load_state_machine(files) ==
    IF ~exists(files, definition_file)
    THEN [states |-> <<"draft", "design_complete", "implemented", "validated">>,
          transitions |-> EmptyMap]
    ELSE files[definition_file]

\* load_transition_rules: the rules file's content, or the default table.
load_transition_rules(files) ==
    IF ~exists(files, rules_file)
    THEN [transitions |-> EmptyMap]
    ELSE files[rules_file]

\* get_component_state falling back to a default payload, as the loaders of
\* the rules and of the definition do, instead of returning None.
get_component_state_default(files, component_id) ==
    IF ~exists(files, state_file(component_id))
    THEN [out |-> Dict([state |-> Str("draft")]), log |-> <<>>]
    ELSE [out |-> files[state_file(component_id)],
          log |-> <<ReadEvent(state_file(component_id))>>]

\* get_component_state: the state file's JSON value, or None without a file.
get_component_state(files, component_id) ==
    IF ~exists(files, state_file(component_id))
    THEN [out |-> None, log |-> <<>>]
    ELSE [out |-> files[state_file(component_id)],
          log |-> <<ReadEvent(state_file(component_id))>>]

\* The loop of the property_set branch: walk prop_path through value.
RECURSIVE property_walk(_, _)
property_walk(prop_path, value) ==
    IF prop_path = <<>>
    THEN Return(value.t # "null")
    ELSE LET key == Head(prop_path)
             found == contains(key, value)
         IN  IF found.raised THEN found
             ELSE IF ~found.value THEN Return(FALSE)
             ELSE LET next == getitem(value, key)
                  IN  IF next.raised THEN next
                      ELSE property_walk(Tail(prop_path), next.value)

\* The linked_resources branch.
linked_resources(required_link_type, component_state) ==
    LET links == get(component_state, "links", Dict(EmptyMap))
    IN  IF links.raised THEN links
        ELSE LET found == contains(chars(required_link_type), links.value)
             IN  IF found.raised THEN found
                 ELSE IF ~found.value THEN Return(FALSE)
                 ELSE LET item == getitem(links.value, chars(required_link_type))
                      IN  IF item.raised THEN item
                          ELSE LET n == len(item.value)
                               IN  IF n.raised THEN n ELSE Return(n.value > 0)

\* _check_prerequisite testing the path template as it is written, without
\* the component's identifier in it.
_check_prerequisite_unformatted(files, component_id, prerequisite, component_state) ==
    LET prereq_type == MapGet(prerequisite, "type", "None")
    IN  CASE prereq_type = "file_exists" ->
                IF "path" \notin DOMAIN prerequisite THEN Raise("KeyError")
                ELSE Return(exists(files, join(prerequisite["path"])))
          [] prereq_type = "property_set" ->
                IF "property" \notin DOMAIN prerequisite THEN Raise("KeyError")
                ELSE property_walk(split(chars(prerequisite["property"]), "."),
                                   component_state)
          [] prereq_type = "linked_resources" ->
                IF "link_type" \notin DOMAIN prerequisite THEN Raise("KeyError")
                ELSE linked_resources(prerequisite["link_type"], component_state)
          [] OTHER -> Return(FALSE)

\* _check_prerequisite letting a prerequisite of no known kind pass.
_check_prerequisite_unknown_passes(files, component_id, prerequisite, component_state) ==
    LET prereq_type == MapGet(prerequisite, "type", "None")
    IN  CASE prereq_type = "file_exists" ->
                IF "path" \notin DOMAIN prerequisite THEN Raise("KeyError")
                ELSE Return(exists(files, format(prerequisite["path"], component_id)))
          [] prereq_type = "property_set" ->
                IF "property" \notin DOMAIN prerequisite THEN Raise("KeyError")
                ELSE property_walk(split(chars(prerequisite["property"]), "."),
                                   component_state)
          [] prereq_type = "linked_resources" ->
                IF "link_type" \notin DOMAIN prerequisite THEN Raise("KeyError")
                ELSE linked_resources(prerequisite["link_type"], component_state)
          [] OTHER -> Return(TRUE)

\* _check_prerequisite: whether the prerequisite is satisfied.
_check_prerequisite(files, component_id, prerequisite, component_state) ==
    LET prereq_type == MapGet(prerequisite, "type", "None")
    IN  CASE prereq_type = "file_exists" ->
                IF "path" \notin DOMAIN prerequisite THEN Raise("KeyError")
                ELSE Return(exists(files, format(prerequisite["path"], component_id)))
          [] prereq_type = "property_set" ->
                IF "property" \notin DOMAIN prerequisite THEN Raise("KeyError")
                ELSE property_walk(split(chars(prerequisite["property"]), "."),
                                   component_state)
          [] prereq_type = "linked_resources" ->
                IF "link_type" \notin DOMAIN prerequisite THEN Raise("KeyError")
                ELSE linked_resources(prerequisite["link_type"], component_state)
          [] OTHER -> Return(FALSE)

\* f"{value}": str() of a state value (a string, or None).
pystr(value) ==
    CASE value.t = "str"  -> value.s
      [] value.t = "null" -> "None"

\* f"{from_state}_to_{to_state}"
transition_key(from_state, to_state) == from_state \o "_to_" \o to_state

\* The loop of validate_transition over the prerequisites, from the errors
\* and the events collected so far.
RECURSIVE check_prerequisites(_, _, _, _, _, _)
check_prerequisites(files, component_id, prerequisites, component_state, errors, log) ==
    IF prerequisites = <<>>
    THEN [out |-> Return([ok |-> Len(errors) = 0, errors |-> errors]), log |-> log]
    ELSE LET prereq == Head(prerequisites)
             met == _check_prerequisite(files, component_id, prereq, component_state)
             checked == Append(log, CheckEvent(prereq))
         IN  IF met.raised THEN [out |-> met, log |-> checked]
             ELSE IF met.value
             THEN check_prerequisites(files, component_id, Tail(prerequisites),
                                      component_state, errors, checked)
             ELSE IF "description" \notin DOMAIN prereq
             THEN [out |-> Raise("KeyError"), log |-> checked]
             ELSE check_prerequisites(
                      files, component_id, Tail(prerequisites), component_state,
                      Append(errors, "Prerequisite not met: " \o prereq["description"]),
                      checked)

\* validate_transition looking the component up before the rules table.
validate_transition_lookup_first(files, component_id, from_state, to_state, transition_rules) ==
    LET key == transition_key(from_state, to_state)
        component_state == get_component_state(files, component_id)
    IN  IF ~Truthy(component_state.out)
        THEN [out |-> Return([ok |-> FALSE,
                              errors |-> <<"Component '" \o component_id
                                           \o "' not found">>]),
              log |-> component_state.log]
        ELSE IF key \notin DOMAIN MapGet(transition_rules, "transitions", EmptyMap)
        THEN [out |-> Return([ok |-> FALSE,
                              errors |-> <<"No transition defined from '" \o from_state
                                           \o "' to '" \o to_state \o "'">>]),
              log |-> component_state.log]
        ELSE check_prerequisites(
                 files, component_id,
                 MapGet(transition_rules["transitions"][key], "prerequisites", <<>>),
                 component_state.out, <<>>, component_state.log)

\* validate_transition with an error list that outlives the call: the errors
\* of the validation before it are still in the list.
validate_transition_accumulating(files, component_id, from_state, to_state, transition_rules) ==
    LET key == transition_key(from_state, to_state)
        errors == IF call.op = "validate_transition" /\ ~result.raised
                  THEN result.value.errors ELSE <<>>
    IN  IF key \notin DOMAIN MapGet(transition_rules, "transitions", EmptyMap)
        THEN [out |-> Return([ok |-> FALSE,
                              errors |-> Append(errors,
                                                "No transition defined from '"
                                                \o from_state \o "' to '"
                                                \o to_state \o "'")]),
              log |-> <<>>]
        ELSE LET component_state == get_component_state(files, component_id)
             IN  IF ~Truthy(component_state.out)
                 THEN [out |-> Return([ok |-> FALSE,
                                       errors |-> Append(errors,
                                                         "Component '" \o component_id
                                                         \o "' not found")]),
                       log |-> component_state.log]
                 ELSE check_prerequisites(
                          files, component_id,
                          MapGet(transition_rules["transitions"][key],
                                 "prerequisites", <<>>),
                          component_state.out, errors, component_state.log)

\* validate_transition: (is_valid, list_of_errors).
validate_transition(files, component_id, from_state, to_state, transition_rules) ==
    LET key == transition_key(from_state, to_state)
    IN  IF key \notin DOMAIN MapGet(transition_rules, "transitions", EmptyMap)
        THEN [out |-> Return([ok |-> FALSE,
                              errors |-> <<"No transition defined from '" \o from_state
                                           \o "' to '" \o to_state \o "'">>]),
              log |-> <<>>]
        ELSE LET prerequisites ==
                     MapGet(transition_rules["transitions"][key], "prerequisites", <<>>)
                 component_state == get_component_state(files, component_id)
             IN  IF ~Truthy(component_state.out)
                 THEN [out |-> Return([ok |-> FALSE,
                                       errors |-> <<"Component '" \o component_id
                                                    \o "' not found">>]),
                       log |-> component_state.log]
                 ELSE check_prerequisites(files, component_id, prerequisites,
                                          component_state.out, <<>>, component_state.log)

\* _get_timestamp: the clock's reading in ISO format, with a "Z".
_get_timestamp(clock) == ToString(clock) \o "Z"

\* updated_state replacing the history by the new record instead of
\* appending to it.
updated_state_reset_history(component_state, new_state, clock) ==
    LET old_state == DictGet(component_state, "state", Str("draft"))
        with_state == DictSet(component_state, "state", Str(new_state))
        entry == Dict([from |-> old_state, to |-> Str(new_state),
                       timestamp |-> Str(_get_timestamp(clock))])
    IN  Return(DictSet(with_state, "state_history", List(<<entry>>)))

\* updated_state reading old_state after the state was set.
updated_state_from_new(component_state, new_state, clock) ==
    LET with_state == DictSet(component_state, "state", Str(new_state))
        old_state == DictGet(with_state, "state", Str("draft"))
        state_history == DictGet(with_state, "state_history", List(<<>>))
        entry == Dict([from |-> old_state, to |-> Str(new_state),
                       timestamp |-> Str(_get_timestamp(clock))])
    IN  IF state_history.t # "list"
        THEN Raise("AttributeError")
        ELSE Return(DictSet(with_state, "state_history",
                            List(Append(state_history.items, entry))))

\* updated_state building a new payload of the state and the history alone.
updated_state_fresh_payload(component_state, new_state, clock) ==
    LET old_state == DictGet(component_state, "state", Str("draft"))
        state_history == DictGet(component_state, "state_history", List(<<>>))
        entry == Dict([from |-> old_state, to |-> Str(new_state),
                       timestamp |-> Str(_get_timestamp(clock))])
    IN  IF state_history.t # "list"
        THEN Raise("AttributeError")
        ELSE Return(Dict([state |-> Str(new_state),
                          state_history |-> List(Append(state_history.items, entry))]))

\* Lines 238-245 of _apply_state_update: the payload with its state set and
\* the record of the change appended to its history.  list.append is a
\* method of lists alone.
updated_state(component_state, new_state, clock) ==
    LET old_state == DictGet(component_state, "state", Str("draft"))
        with_state == DictSet(component_state, "state", Str(new_state))
        state_history == DictGet(with_state, "state_history", List(<<>>))
        entry == Dict([from |-> old_state, to |-> Str(new_state),
                       timestamp |-> Str(_get_timestamp(clock))])
    IN  IF state_history.t # "list"
        THEN Raise("AttributeError")
        ELSE Return(DictSet(with_state, "state_history",
                            List(Append(state_history.items, entry))))

\* _apply_state_update reading the state file again before it changes the
\* payload, instead of changing the payload its caller loaded.
_apply_state_update_reread(files, component_id, component_state, new_state, clock, log) ==
    LET loaded == files[state_file(component_id)]
        old_state == DictGet(loaded, "state", Str("draft"))
        updated == updated_state(loaded, new_state, clock)
    IN  IF updated.raised
        THEN [out |-> updated, log |-> log, fs |-> files]
        ELSE [out |-> Return([success |-> TRUE,
                              component_id |-> component_id,
                              from_state |-> old_state,
                              to_state |-> new_state,
                              message |-> "Successfully updated " \o component_id
                                          \o " from " \o pystr(old_state)
                                          \o " to " \o new_state]),
              log |-> Append(log, WriteEvent(state_file(component_id))),
              fs |-> write(files, state_file(component_id), updated.value)]

\* _apply_state_update: the mutated payload written to the state file.  `log`
\* holds the caller's events.
_apply_state_update(files, component_id, component_state, new_state, clock, log) ==
    LET old_state == DictGet(component_state, "state", Str("draft"))
        updated == updated_state(component_state, new_state, clock)
    IN  IF updated.raised
        THEN [out |-> updated, log |-> log, fs |-> files]
        ELSE [out |-> Return([success |-> TRUE,
                              component_id |-> component_id,
                              from_state |-> old_state,
                              to_state |-> new_state,
                              message |-> "Successfully updated " \o component_id
                                          \o " from " \o pystr(old_state)
                                          \o " to " \o new_state]),
              log |-> Append(log, WriteEvent(state_file(component_id))),
              fs |-> write(files, state_file(component_id), updated.value)]

\* Lines 186-216 of update_state, on the payload line 185 loaded: the result
\* it returns without writing, or the go-ahead to apply the update.
update_state_checks(files, component_id, component_state, new_state, force) ==
    IF ~Truthy(component_state.out)
    THEN [apply |-> FALSE,
          out |-> Return([success |-> FALSE,
                          error |-> "Component '" \o component_id \o "' not found",
                          component_id |-> component_id]),
          log |-> component_state.log]
    ELSE LET current_state == get(component_state.out, "state", Str("draft"))
         IN  IF current_state.raised
             THEN [apply |-> FALSE, out |-> current_state, log |-> component_state.log]
             ELSE IF force
             THEN [apply |-> TRUE, out |-> Return(None), log |-> component_state.log]
             ELSE LET validation ==
                          validate_transition(files, component_id,
                                              pystr(current_state.value), new_state,
                                              load_transition_rules(files))
                      log == component_state.log \o validation.log
                  IN  IF validation.out.raised
                      THEN [apply |-> FALSE, out |-> validation.out, log |-> log]
                      ELSE IF ~validation.out.value.ok
                      THEN [apply |-> FALSE,
                            out |-> Return([success |-> FALSE,
                                      error |-> "Transition validation failed",
                                      validation_errors |-> validation.out.value.errors,
                                      component_id |-> component_id,
                                      from_state |-> current_state.value,
                                      to_state |-> new_state]),
                            log |-> log]
                      ELSE [apply |-> TRUE, out |-> Return(None), log |-> log]

\* update_state: the result returned and the file system left.
update_state(files, component_id, new_state, force, clock) ==
    LET component_state == get_component_state(files, component_id)
        checks == update_state_checks(files, component_id, component_state,
                                      new_state, force)
    IN  IF checks.apply
        THEN _apply_state_update(files, component_id, component_state.out,
                                 new_state, clock, checks.log)
        ELSE [out |-> checks.out, log |-> checks.log, fs |-> files]

(***************************************************************************)
(* The files a run starts from.                                            *)
(***************************************************************************)

\* The rules file of the tests' fixture.
TestRules ==
    [transitions |->
        [draft_to_design_complete |->
            [prerequisites |->
                <<[type |-> "file_exists", path |-> PenTemplate,
                   description |-> "Design specification file must exist"]>>],
         design_complete_to_implemented |->
            [prerequisites |->
                <<[type |-> "file_exists",
                   path |-> <<components_path, Placeholder, ".js">>,
                   description |-> "Implementation file must exist"]>>]]]

\* A rules file with one prerequisite of every kind, a rule whose
\* prerequisites are of no known kind (one of them without a type), a rule
\* without a prerequisites list and a non-monotonic rule with an empty one.
FullRules ==
    [transitions |->
        [draft_to_design_complete |->
            [prerequisites |->
                <<[type |-> "file_exists", path |-> PenTemplate,
                   description |-> "Design specification file must exist"],
                  [type |-> "property_set", property |-> "meta.owner",
                   description |-> "Owner must be set"],
                  [type |-> "linked_resources", link_type |-> "design",
                   description |-> "Design link must exist"]>>],
         design_complete_to_implemented |->
            [prerequisites |->
                <<[type |-> "manual_approval",
                   description |-> "Approval must be recorded"],
                  [description |-> "Review must be signed off"]>>],
         implemented_to_validated |-> EmptyMap,
         validated_to_draft |-> [prerequisites |-> <<>>]]]

RuleFiles == {TestRules, FullRules}

\* The definition file of the tests' fixture.
TestDefinition ==
    [states |-> <<"draft", "design_complete", "implemented", "validated">>,
     transitions |-> [draft_to_design_complete |-> TRUE,
                      design_complete_to_implemented |-> TRUE,
                      implemented_to_validated |-> TRUE]]

\* The state file of the tests' fixture.
FixtureState(component_id) ==
    Dict([component_id |-> Str(component_id), state |-> Str("draft"),
          links |-> Dict(EmptyMap), state_history |-> List(<<>>)])

\* A state file without state and state_history, its owner and design link set.
LinkedState(component_id) ==
    Dict([component_id |-> Str(component_id),
          meta |-> Dict([owner |-> Str("me")]),
          links |-> Dict([design |-> List(<<Str("design")>>)])])

\* A state file whose meta is null.
NullMetaState(component_id) ==
    Dict([component_id |-> Str(component_id), state |-> Str("draft"),
          meta |-> None, state_history |-> List(<<>>)])

\* The state files a component may start with.
StateFiles(component_id) ==
    {Dict(EmptyMap), FixtureState(component_id), LinkedState(component_id),
     NullMetaState(component_id)}

\* The file systems a run may start from: with or without a definition
\* file, with or without a rules file, and with or without a state file for
\* button-primary.  card-basic has none.
FileSystems ==
    LET StateChoice(c) == {EmptyMap} \cup
                          {(state_file(c) :> content) : content \in StateFiles(c)}
        RuleChoice == {EmptyMap} \cup {(rules_file :> rules) : rules \in RuleFiles}
        DefinitionChoice == {EmptyMap, (definition_file :> TestDefinition)}
    IN  {d @@ r @@ a : d \in DefinitionChoice, r \in RuleChoice,
                       a \in StateChoice("button-primary")}

\* State files whose meta and links are not the mappings the rules expect:
\* a null owner and an empty list of links; a null link list; strings; a
\* string that holds no key with null links; lists; an empty links entry
\* that is a mapping.
NullOwnerState(component_id) ==
    Dict([component_id |-> Str(component_id), state |-> Str("draft"),
          meta |-> Dict([owner |-> None]),
          links |-> Dict([design |-> List(<<>>)])])

NullLinkState(component_id) ==
    Dict([component_id |-> Str(component_id), state |-> Str("draft"),
          meta |-> Dict(EmptyMap),
          links |-> Dict([design |-> None])])

StringState(component_id) ==
    Dict([component_id |-> Str(component_id), state |-> Str("draft"),
          meta |-> Str("owner"), links |-> Str("design")])

ShortStringState(component_id) ==
    Dict([component_id |-> Str(component_id), state |-> Str("draft"),
          meta |-> Str("me"), links |-> None])

ListState(component_id) ==
    Dict([component_id |-> Str(component_id), state |-> Str("draft"),
          meta |-> List(<<Str("owner")>>), links |-> List(<<Str("design")>>)])

MappedLinkState(component_id) ==
    Dict([component_id |-> Str(component_id), state |-> Str("draft"),
          owner |-> Str("me"),
          links |-> Dict([design |-> Dict(EmptyMap), me |-> List(<<Str("me")>>)])])

\* The payloads the prerequisites are evaluated on: every JSON object that
\* validate_transition goes on with.
EvaluatedStateFiles(component_id) ==
    {content \in StateFiles(component_id) : Truthy(content)}
    \cup {NullOwnerState(component_id), NullLinkState(component_id),
          StringState(component_id), ShortStringState(component_id),
          ListState(component_id), MappedLinkState(component_id)}

\* The prerequisites evaluated: those of the rules, and a property and a
\* link type at other places of the payload.
EvaluatedPrerequisites ==
    LET OfRule(rules, key) == MapGet(rules["transitions"][key], "prerequisites", <<>>)
    IN  UNION {{OfRule(rules, key)[i] : i \in 1..Len(OfRule(rules, key))} :
                   rules \in RuleFiles, key \in {"draft_to_design_complete",
                                                 "design_complete_to_implemented"}}
        \cup {[type |-> "property_set", property |-> "meta",
               description |-> "Meta must be set"],
              [type |-> "property_set", property |-> "owner",
               description |-> "Owner must be set at the top"],
              [type |-> "linked_resources", link_type |-> "me",
               description |-> "Own link must exist"]}

\* The file systems the evaluator starts from: button-primary has a state
\* file with one of the payloads.
EvaluatedFileSystems ==
    LET RuleChoice == {EmptyMap} \cup {(rules_file :> rules) : rules \in RuleFiles}
        DefinitionChoice == {EmptyMap, (definition_file :> TestDefinition)}
    IN  {d @@ r @@ (state_file("button-primary") :> content) :
             d \in DefinitionChoice, r \in RuleChoice,
             content \in EvaluatedStateFiles("button-primary")}

Init ==
    /\ fs \in FileSystems
    /\ now = 0
    /\ call = [op |-> "init"]
    /\ result = Return(None)
    /\ effects = <<>>
    /\ repeats = 0
    /\ inflight = [i \in Invocations |-> Idle]
    /\ validator = NewValidator
    /\ runner = NewRunner(FALSE, <<>>)

(***************************************************************************)
(* The steps.                                                              *)
(***************************************************************************)

\* One invocation of update_state.  A call that writes takes one tick.
UpdateState(component_id, new_state, force) ==
    \E done \in {update_state(fs, component_id, new_state, force, now)} :
        /\ done.fs # fs => now < MaxTime
        /\ fs' = done.fs
        /\ now' = IF done.fs # fs THEN now + 1 ELSE now
        /\ call' = [op |-> "update_state", component_id |-> component_id,
                    new_state |-> new_state, force |-> force]
        /\ result' = done.out
        /\ effects' = done.log
        /\ repeats' = 0
        /\ UNCHANGED <<inflight, validator, runner>>

\* One invocation of validate_transition with the rules as loaded.
ValidateTransition(component_id, from_state, to_state) ==
    \E done \in {validate_transition(fs, component_id, from_state, to_state,
                                     load_transition_rules(fs))} :
        /\ call' = [op |-> "validate_transition", component_id |-> component_id,
                    from_state |-> from_state, to_state |-> to_state]
        /\ call' = call => repeats < MaxRepeats
        /\ repeats' = IF call' = call THEN repeats + 1 ELSE 0
        /\ result' = done.out
        /\ effects' = done.log
        /\ UNCHANGED <<fs, now, inflight, validator, runner>>

\* The caller creates the design file of a component.
CreateFile(component_id) ==
    /\ ~exists(fs, format(PenTemplate, component_id))
    /\ fs' = write(fs, format(PenTemplate, component_id), Str("// Design spec"))
    /\ call' = [op |-> "create_file", path |-> format(PenTemplate, component_id)]
    /\ result' = Return(None)
    /\ effects' = <<>>
    /\ repeats' = 0
    /\ UNCHANGED <<now, inflight, validator, runner>>

\* One evaluation of a prerequisite on the payload validate_transition
\* loaded for the component.
CheckPrerequisite(component_id, prerequisite) ==
    /\ exists(fs, state_file(component_id))
    /\ Truthy(fs[state_file(component_id)])
    /\ call' = [op |-> "_check_prerequisite", component_id |-> component_id,
                prerequisite |-> prerequisite]
    /\ result' = _check_prerequisite(fs, component_id, prerequisite,
                                     fs[state_file(component_id)])
    /\ effects' = <<CheckEvent(prerequisite)>>
    /\ repeats' = 0
    /\ UNCHANGED <<fs, now, inflight, validator, runner>>

\* One call of load_state_machine.
LoadStateMachine ==
    /\ call' = [op |-> "load_state_machine"]
    /\ result' = Return(load_state_machine(fs))
    /\ effects' = IF exists(fs, definition_file)
                  THEN <<ReadEvent(definition_file)>> ELSE <<>>
    /\ repeats' = 0
    /\ UNCHANGED <<fs, now, inflight, validator, runner>>

\* One call of load_transition_rules.
LoadTransitionRules ==
    /\ call' = [op |-> "load_transition_rules"]
    /\ result' = Return(load_transition_rules(fs))
    /\ effects' = IF exists(fs, rules_file) THEN <<ReadEvent(rules_file)>> ELSE <<>>
    /\ repeats' = 0
    /\ UNCHANGED <<fs, now, inflight, validator, runner>>

\* Line 185 of invocation i of update_state: the payload is loaded.
Load(i, component_id, new_state, force) ==
    /\ inflight[i].pc = "idle"
    /\ \E component_state \in {get_component_state(fs, component_id)} :
           /\ inflight' = [inflight EXCEPT ![i] =
                               [pc |-> "loaded", component_id |-> component_id,
                                new_state |-> new_state, force |-> force,
                                component_state |-> component_state,
                                read_at |-> now]]
           /\ effects' = component_state.log
    /\ call' = [op |-> "load", invocation |-> i]
    /\ result' = Return(None)
    /\ repeats' = 0
    /\ UNCHANGED <<fs, now, validator, runner>>

\* Lines 186-216 of invocation i: the not-found test, the force test and the
\* validation, which reads the rules, the state file again and the files of
\* the prerequisites.  The invocation returns here, or goes on to the write.
Check(i) ==
    /\ inflight[i].pc = "loaded"
    /\ \E checks \in {update_state_checks(fs, inflight[i].component_id,
                                           inflight[i].component_state,
                                           inflight[i].new_state,
                                           inflight[i].force)} :
           /\ inflight' = [inflight EXCEPT ![i] =
                               IF checks.apply
                               THEN [pc |-> "checked",
                                     component_id |-> inflight[i].component_id,
                                     new_state |-> inflight[i].new_state,
                                     force |-> inflight[i].force,
                                     component_state |-> inflight[i].component_state,
                                     read_at |-> inflight[i].read_at,
                                     log |-> checks.log]
                               ELSE [pc |-> "returned",
                                     component_id |-> inflight[i].component_id,
                                     new_state |-> inflight[i].new_state,
                                     force |-> inflight[i].force,
                                     component_state |-> inflight[i].component_state,
                                     read_at |-> inflight[i].read_at,
                                     out |-> checks.out, wrote |-> FALSE]]
           /\ result' = IF checks.apply THEN Return(None) ELSE checks.out
           /\ effects' = checks.log
    /\ call' = [op |-> "check", invocation |-> i]
    /\ repeats' = 0
    /\ UNCHANGED <<fs, now, validator, runner>>

\* _apply_state_update of invocation i, on the payload it loaded: the write.
Apply(i) ==
    /\ inflight[i].pc = "checked"
    /\ now < MaxTime
    /\ \E done \in {_apply_state_update(fs, inflight[i].component_id,
                                         inflight[i].component_state.out,
                                         inflight[i].new_state, now,
                                         inflight[i].log)} :
           /\ fs' = done.fs
           /\ inflight' = [inflight EXCEPT ![i] =
                               [pc |-> "returned",
                                component_id |-> inflight[i].component_id,
                                new_state |-> inflight[i].new_state,
                                force |-> inflight[i].force,
                                component_state |-> inflight[i].component_state,
                                read_at |-> inflight[i].read_at,
                                out |-> done.out, wrote |-> ~done.out.raised,
                                wrote_at |-> now]]
           /\ result' = done.out
           /\ effects' = done.log
    /\ now' = now + 1
    /\ call' = [op |-> "apply", invocation |-> i]
    /\ repeats' = 0
    /\ UNCHANGED <<validator, runner>>

\* The updater as its callers drive it: updates, and the files they create.
Next ==
    \/ \E c \in ComponentIds, s \in NewStates, force \in BOOLEAN :
           UpdateState(c, s, force)
    \/ \E c \in ComponentIds : CreateFile(c)

Spec == Init /\ [][Next]_vars

\* The validator alone, applied to every file system and every pair of states.
NextValidate ==
    \/ \E c \in ComponentIds, from \in States, to \in NewStates :
           ValidateTransition(c, from, to)
    \/ \E c \in ComponentIds : CreateFile(c)

SpecValidate == Init /\ [][NextValidate]_vars

\* Invocations of update_state side by side, as separate processes run them:
\* no lock is taken, so they interleave at every access to the files.
NextOverlap ==
    \/ \E i \in Invocations, c \in ComponentIds, s \in NewStates, force \in BOOLEAN :
           Load(i, c, s, force)
    \/ \E i \in Invocations : Check(i)
    \/ \E i \in Invocations : Apply(i)
    \/ \E c \in ComponentIds : CreateFile(c)

SpecOverlap == Init /\ [][NextOverlap]_vars

\* The leaves of the updater alone: the prerequisite evaluator on every
\* payload, and the two loaders.
InitEvaluate ==
    /\ fs \in EvaluatedFileSystems
    /\ now = 0
    /\ call = [op |-> "init"]
    /\ result = Return(None)
    /\ effects = <<>>
    /\ repeats = 0
    /\ inflight = [i \in Invocations |-> Idle]
    /\ validator = NewValidator
    /\ runner = NewRunner(FALSE, <<>>)

NextEvaluate ==
    \/ \E c \in ComponentIds, prerequisite \in EvaluatedPrerequisites :
           CheckPrerequisite(c, prerequisite)
    \/ LoadStateMachine
    \/ LoadTransitionRules
    \/ \E c \in ComponentIds : CreateFile(c)

SpecEvaluate == InitEvaluate /\ [][NextEvaluate]_vars

\* The file systems in which both components have a state file, with fields
\* of their own beside the state and the history: an owner and a design link
\* for one, and for the other the fixture's fields.
FrameFileSystems ==
    {(rules_file :> rules)
     @@ (state_file("button-primary") :> LinkedState("button-primary"))
     @@ (state_file("card-basic") :> FixtureState("card-basic")) :
         rules \in RuleFiles}

InitFrame ==
    /\ fs \in FrameFileSystems
    /\ now = 0
    /\ call = [op |-> "init"]
    /\ result = Return(None)
    /\ effects = <<>>
    /\ repeats = 0
    /\ inflight = [i \in Invocations |-> Idle]
    /\ validator = NewValidator
    /\ runner = NewRunner(FALSE, <<>>)

\* The updater driven on two components side by side.
NextFrame ==
    \/ \E c \in ComponentIds, s \in NewStates, force \in BOOLEAN :
           UpdateState(c, s, force)
    \/ \E c \in ComponentIds : CreateFile(c)

SpecFrame == InitFrame /\ [][NextFrame]_vars

(***************************************************************************)
(* CompositionValidator.  The graph file holds a JSON object with a list   *)
(* of nodes and a list of edges; every method takes the validator object   *)
(* it runs on.                                                             *)
(***************************************************************************)
graph_path == "graph.json"

\* The levels of the atomic design hierarchy.
Levels == {"primitive", "molecule", "organism", "template", "page"}

\* COMPOSITION_RULES with a molecule allowed inside a molecule.
COMPOSITION_RULES_nested_molecules ==
    [level \in {"primitive", "molecule", "organism", "template", "page"} |->
        CASE level = "primitive" -> {}
          [] level = "molecule"  -> {"primitive", "molecule"}
          [] level = "organism"  -> {"molecule", "primitive"}
          [] level = "template"  -> {"organism", "molecule", "primitive"}
          [] level = "page"      -> {"template", "organism", "molecule", "primitive"}]

\* COMPOSITION_RULES with a template allowed inside an organism.
COMPOSITION_RULES_template_in_organism ==
    [level \in {"primitive", "molecule", "organism", "template", "page"} |->
        CASE level = "primitive" -> {}
          [] level = "molecule"  -> {"primitive"}
          [] level = "organism"  -> {"template", "molecule", "primitive"}
          [] level = "template"  -> {"organism", "molecule", "primitive"}
          [] level = "page"      -> {"template", "organism", "molecule", "primitive"}]

\* COMPOSITION_RULES: component level -> allowed child levels.
COMPOSITION_RULES ==
    [level \in Levels |->
        CASE level = "primitive" -> {}
          [] level = "molecule"  -> {"primitive"}
          [] level = "organism"  -> {"molecule", "primitive"}
          [] level = "template"  -> {"organism", "molecule", "primitive"}
          [] level = "page"      -> {"template", "organism", "molecule", "primitive"}]

\* sorted(levels): the level names in alphabetical order.
sorted(levels) ==
    LET In(level) == level \in levels
    IN  SelectSeq(<<"molecule", "organism", "primitive", "template">>, In)

\* sep.join(items)
RECURSIVE join_with(_, _)
join_with(sep, items) ==
    IF items = <<>> THEN ""
    ELSE IF Len(items) = 1 THEN items[1]
    ELSE items[1] \o sep \o join_with(sep, Tail(items))

\* The loop of load_graph: self.nodes[node['id']] = node, for each node.
RECURSIVE index_nodes(_, _)
index_nodes(nodes, items) ==
    IF items = <<>> THEN Return(nodes)
    ELSE IF "id" \notin DOMAIN Head(items).f THEN Raise("KeyError")
    ELSE index_nodes(
             [id \in (DOMAIN nodes) \cup {Head(items).f["id"].s} |->
                  IF id = Head(items).f["id"].s THEN Head(items) ELSE nodes[id]],
             Tail(items))

\* load_graph: the nodes indexed by id and the edges, and True; False, with
\* the object as it was, without the file.
load_graph(files, self) ==
    IF ~exists(files, graph_path)
    THEN [out |-> Return(FALSE), self |-> self]
    ELSE LET data == files[graph_path]
             nodes == index_nodes(self.nodes, DictGet(data, "nodes", List(<<>>)).items)
         IN  IF nodes.raised THEN [out |-> nodes, self |-> self]
             ELSE [out |-> Return(TRUE),
                   self |-> [self EXCEPT !.nodes = nodes.value,
                                         !.edges = DictGet(data, "edges",
                                                           List(<<>>)).items]]

\* self.nodes.get(node_id): node_id is a string or None.
node_of(self, node_id) ==
    IF node_id.t = "str" /\ node_id.s \in DOMAIN self.nodes
    THEN self.nodes[node_id.s] ELSE None

\* get_component_level: the level of a DesignSpecNode, or None.
get_component_level(self, node_id) ==
    LET node == node_of(self, node_id)
    IN  IF ~Truthy(node) THEN None
        ELSE IF DictGet(node, "type", None) = Str("DesignSpecNode")
        THEN DictGet(DictGet(node, "properties", Dict(EmptyMap)), "level", None)
        ELSE None

\* self.nodes[node_id].get('properties', {}).get('name', node_id)
name_of(self, node_id) ==
    DictGet(DictGet(self.nodes[node_id.s], "properties", Dict(EmptyMap)),
            "name", node_id)

\* validate_composition_edge: (is_valid, error_message).
validate_composition_edge(self, edge) ==
    IF DictGet(edge, "type", None) # Str("composedOf")
    THEN [is_valid |-> TRUE, error |-> None]
    ELSE LET parent_id == DictGet(edge, "from", None)
             child_id == DictGet(edge, "to", None)
             parent_level == get_component_level(self, parent_id)
             child_level == get_component_level(self, child_id)
         IN  IF ~Truthy(parent_level) \/ ~Truthy(child_level)
             THEN [is_valid |-> TRUE, error |-> None]
             ELSE LET allowed_children ==
                          IF parent_level.s \in DOMAIN COMPOSITION_RULES
                          THEN COMPOSITION_RULES[parent_level.s] ELSE {}
                  IN  IF child_level.s \notin allowed_children
                      THEN [is_valid |-> FALSE,
                            error |->
                                Str("Invalid composition: " \o parent_level.s \o " '"
                                    \o name_of(self, parent_id).s
                                    \o "' cannot contain " \o child_level.s \o " '"
                                    \o name_of(self, child_id).s
                                    \o "'. Allowed children: "
                                    \o (IF allowed_children # {}
                                        THEN join_with(", ", sorted(allowed_children))
                                        ELSE "none"))]
                      ELSE [is_valid |-> TRUE, error |-> None]

\* The loop of validate_all over the edges, from the violations so far.
RECURSIVE validate_edges(_, _, _)
validate_edges(self, edges, violations) ==
    IF edges = <<>> THEN violations
    ELSE LET checked == validate_composition_edge(self, Head(edges))
         IN  validate_edges(
                 self, Tail(edges),
                 IF ~checked.is_valid
                 THEN Append(violations, [edge |-> Head(edges), error |-> checked.error])
                 ELSE violations)

\* validate_all without the reset of self.violations.
validate_all_accumulating(self) ==
    LET violations == validate_edges(self, self.edges, self.violations)
    IN  [out |-> Return(Len(violations) = 0),
         self |-> [self EXCEPT !.violations = violations]]

\* validate_all: the violations start empty; True when none is found.
validate_all(self) ==
    LET violations == validate_edges(self, self.edges, <<>>)
    IN  [out |-> Return(Len(violations) = 0),
         self |-> [self EXCEPT !.violations = violations]]

\* get_exit_code
get_exit_code(self) == IF Len(self.violations) = 0 THEN 0 ELSE 1

(***************************************************************************)
(* The graphs a run of the validator starts from.                          *)
(***************************************************************************)

\* The number of edges of a graph file.
MaxEdges == 2

DesignSpecNode(id, name, level) ==
    Dict([id |-> Str(id), type |-> Str("DesignSpecNode"),
          properties |-> Dict([name |-> Str(name), level |-> Str(level)])])

\* One component of every level; a component of a level that is none of
\* them; a component without a level; a node that is no DesignSpecNode.
GraphNodes ==
    <<DesignSpecNode("button", "Button", "primitive"),
      DesignSpecNode("search-field", "SearchField", "molecule"),
      DesignSpecNode("header", "Header", "organism"),
      DesignSpecNode("layout", "Layout", "template"),
      DesignSpecNode("home", "Home", "page"),
      DesignSpecNode("token", "Token", "atom"),
      Dict([id |-> Str("sketch"), type |-> Str("DesignSpecNode"),
            properties |-> Dict([name |-> Str("Sketch")])]),
      Dict([id |-> Str("readme"), type |-> Str("DocNode"),
            properties |-> Dict([name |-> Str("Readme"), level |-> Str("molecule")])])>>

\* The components below the page level, and the page.
LevelledIds == {"button", "search-field", "header", "layout"}
PageId == "home"

Edge(from, to, type) == Dict([from |-> Str(from), to |-> Str(to), type |-> Str(type)])

\* The edges of the graphs: composedOf between every two components below
\* the page level, from the page to every component and to itself, between
\* a molecule and the other nodes (one of them in no graph), and an edge of
\* another type.
GraphEdges ==
    {Edge(from, to, "composedOf") : from \in LevelledIds, to \in LevelledIds}
    \cup {Edge(PageId, to, "composedOf") : to \in LevelledIds \cup {PageId}}
    \cup {Edge("search-field", to, "composedOf") : to \in {"token", "sketch", "ghost"}}
    \cup {Edge(from, "search-field", "composedOf") : from \in {"token", "sketch", "readme"}}
    \cup {Edge("button", "header", "dependsOn")}

\* The lists of at most MaxEdges edges.
EdgeLists == UNION {[1..n -> GraphEdges] : n \in 0..MaxEdges}

\* The graph files: the nodes above with one of the lists of edges.
GraphFiles ==
    {Dict([nodes |-> List(GraphNodes), edges |-> List(edges)]) : edges \in EdgeLists}

\* A new validator, for a graph file that is there or not.
InitComposition ==
    /\ fs \in {EmptyMap} \cup {(graph_path :> graph) : graph \in GraphFiles}
    /\ now = 0
    /\ call = [op |-> "init"]
    /\ result = Return(None)
    /\ effects = <<>>
    /\ repeats = 0
    /\ inflight = [i \in Invocations |-> Idle]
    /\ validator = NewValidator
    /\ runner = NewRunner(FALSE, <<>>)

\* One call of load_graph.
LoadGraph ==
    /\ \E done \in {load_graph(fs, validator)} :
           /\ validator' = done.self
           /\ result' = done.out
    /\ call' = [op |-> "load_graph"]
    /\ effects' = IF exists(fs, graph_path) THEN <<ReadEvent(graph_path)>> ELSE <<>>
    /\ repeats' = 0
    /\ UNCHANGED <<fs, now, inflight, runner>>

\* One call of validate_composition_edge, on an edge of the graph.
ValidateCompositionEdge(k) ==
    /\ k \in 1..Len(validator.edges)
    /\ call' = [op |-> "validate_composition_edge", edge |-> validator.edges[k]]
    /\ result' = Return(validate_composition_edge(validator, validator.edges[k]))
    /\ effects' = <<>>
    /\ repeats' = 0
    /\ UNCHANGED <<fs, now, inflight, validator, runner>>

\* One call of validate_all.
ValidateAll ==
    /\ \E done \in {validate_all(validator)} :
           /\ validator' = done.self
           /\ result' = done.out
    /\ call' = [op |-> "validate_all"]
    /\ call' = call => repeats < MaxRepeats
    /\ repeats' = IF call' = call THEN repeats + 1 ELSE 0
    /\ effects' = <<>>
    /\ UNCHANGED <<fs, now, inflight, runner>>

\* The validator as the tests and main drive it.
NextComposition ==
    \/ LoadGraph
    \/ \E k \in 1..MaxEdges : ValidateCompositionEdge(k)
    \/ ValidateAll

SpecComposition == InitComposition /\ [][NextComposition]_vars

(***************************************************************************)
(* The transition key.  State names are strings of the caller's choice and *)
(* of the rules file's author; a name is given here by its parts, joined   *)
(* by "_to_" when there are several ("ready_to_ship").                     *)
(***************************************************************************)
NameParts ==
    {<<"draft">>, <<"design_complete">>, <<"implemented">>, <<"validated">>,
     <<"archived">>, <<"deprecated">>, <<"review">>, <<"ready">>, <<"ship">>,
     <<"ready", "ship">>, <<"review", "ready">>}

StateNames == {join_with("_to_", parts) : parts \in NameParts}

\* The pairs of states the rules file below has a rule for.
RulePairs == {<<"draft", "design_complete">>, <<"review", "ready_to_ship">>}

\* A rules file with one rule without prerequisites for each of these pairs.
KeyRules ==
    [transitions |->
        [key \in {transition_key(pair[1], pair[2]) : pair \in RulePairs} |->
            [prerequisites |-> <<>>]]]

InitKey ==
    /\ fs = (rules_file :> KeyRules)
             @@ (state_file("button-primary") :> FixtureState("button-primary"))
    /\ now = 0
    /\ call = [op |-> "init"]
    /\ result = Return(None)
    /\ effects = <<>>
    /\ repeats = 0
    /\ inflight = [i \in Invocations |-> Idle]
    /\ validator = NewValidator
    /\ runner = NewRunner(FALSE, <<>>)

\* validate_transition between any two of the state names.
NextKey ==
    \E from_state \in StateNames, to_state \in StateNames :
        ValidateTransition("button-primary", from_state, to_state)

SpecKey == InitKey /\ [][NextKey]_vars

(***************************************************************************)
(* E2ETestRunner and main of tests/e2e/run_e2e_tests.py.  What the browser *)
(* shows a workflow is an input of the run: the page behaves as the        *)
(* workflow expects ("ok") or it does not ("broken").                      *)
(***************************************************************************)
report_path == "tests/e2e/reports/e2e-results.json"

\* The workflows main runs when --workflow is not given.
Workflows ==
    <<"component_interaction_flow", "keyboard_navigation_flow",
      "form_submission_flow", "animation_performance_flow",
      "error_recovery_flow", "reduced_motion_flow">>

\* The names for which the class has a method test_<name>.
TestMethods == {Workflows[k] : k \in 1..Len(Workflows)}

Pages == {"ok", "broken"}

\* measure_performance: nothing without --profile, the timing otherwise.
measure_performance(self, page) ==
    IF ~self.profile THEN None
    ELSE Dict([timing |-> IF page = "ok" THEN "within budget" ELSE "over budget"])

\* validate_performance_budget: True, and no pair, without metrics; the pair
\* (no violations, violations) with them.
validate_performance_budget(metrics) ==
    IF ~Truthy(metrics) THEN Return([t |-> "bool", b |-> TRUE])
    ELSE Return([t |-> "tuple",
                 items |-> <<metrics.f["timing"] = "within budget",
                             metrics.f["timing"]>>])

\* test_component_interaction_flow: `passed, violations = ...` unpacks what
\* validate_performance_budget returned.
test_component_interaction_flow(self, page) ==
    LET budget == validate_performance_budget(measure_performance(self, page))
    IN  IF budget.value.t = "bool"
        THEN Raise("cannot unpack non-iterable bool object")
        ELSE IF ~budget.value.items[1]
        THEN Raise("Performance budget violations")
        ELSE IF page = "ok" THEN Return(None)
        ELSE Raise("Button component not found")

\* The method test_<workflow_name>, called: it returns, or an assertion or
\* a wait of the browser raises.
workflow_method(self, workflow_name, page) ==
    IF workflow_name = "component_interaction_flow"
    THEN test_component_interaction_flow(self, page)
    ELSE IF page = "ok" THEN Return(None)
    ELSE Raise("assertion failed in " \o workflow_name)

\* run_workflow: False at once for a name without a method; otherwise the
\* result of the method is appended to results, PASS or FAIL.
run_workflow(self, workflow_name, page) ==
    IF workflow_name \notin TestMethods
    THEN [ret |-> FALSE, self |-> self]
    ELSE LET outcome == workflow_method(self, workflow_name, page)
         IN  IF ~outcome.raised
             THEN [ret |-> TRUE,
                   self |-> [self EXCEPT !.results =
                                 Append(@, [workflow |-> workflow_name,
                                            status |-> "PASS", duration |-> 0])]]
             ELSE [ret |-> FALSE,
                   self |-> [self EXCEPT !.results =
                                 Append(@, [workflow |-> workflow_name,
                                            status |-> "FAIL",
                                            error |-> outcome.exc])]]

\* generate_report: the summary counted from results, the report written,
\* and True when no result failed.
generate_report(files, self) ==
    LET total == Len(self.results)
        passed == Cardinality({k \in 1..total : self.results[k].status = "PASS"})
        failed == total - passed
    IN  [ret |-> failed = 0,
         fs |-> write(files, report_path,
                      [summary |-> [total |-> total, passed |-> passed,
                                    failed |-> failed],
                       results |-> self.results])]

\* The workflows main can be asked for: all of them, or the one --workflow
\* names, which may have no method.
Requested ==
    {Workflows} \cup {<<name>> : name \in TestMethods \cup {"checkout_flow"}}

InitE2E ==
    /\ fs = EmptyMap
    /\ now = 0
    /\ call = [op |-> "init"]
    /\ result = Return(None)
    /\ effects = <<>>
    /\ repeats = 0
    /\ inflight = [i \in Invocations |-> Idle]
    /\ validator = NewValidator
    /\ runner \in {NewRunner(profile, workflows) :
                       profile \in BOOLEAN, workflows \in Requested}

\* setup_driver: the browser starts, or the exception ends the process.
SetupDriver(started) ==
    /\ runner.pc = "setup"
    /\ runner' = IF started THEN [runner EXCEPT !.pc = "run"]
                 ELSE [runner EXCEPT !.pc = "exited", !.exit = 1]
    /\ call' = [op |-> "setup_driver"]
    /\ result' = IF started THEN Return(None) ELSE Raise("WebDriverException")
    /\ effects' = <<>>
    /\ repeats' = 0
    /\ UNCHANGED <<fs, now, inflight, validator>>

\* One turn of main's loop: run_workflow on the next workflow.
RunWorkflow(page) ==
    /\ runner.pc = "run"
    /\ runner.workflows # <<>>
    /\ \E done \in {run_workflow(runner, Head(runner.workflows), page)} :
           /\ runner' = [done.self EXCEPT !.workflows = Tail(@),
                                          !.returns = Append(@, done.ret)]
           /\ result' = Return(done.ret)
    /\ call' = [op |-> "run_workflow", workflow_name |-> Head(runner.workflows)]
    /\ effects' = <<>>
    /\ repeats' = 0
    /\ UNCHANGED <<fs, now, inflight, validator>>

\* generate_report and sys.exit, after the loop.
GenerateReport ==
    /\ runner.pc = "run"
    /\ runner.workflows = <<>>
    /\ \E done \in {generate_report(fs, runner)} :
           /\ fs' = done.fs
           /\ runner' = [runner EXCEPT !.pc = "exited",
                                       !.exit = IF done.ret THEN 0 ELSE 1]
           /\ result' = Return(done.ret)
    /\ call' = [op |-> "generate_report"]
    /\ effects' = <<WriteEvent(report_path)>>
    /\ repeats' = 0
    /\ UNCHANGED <<now, inflight, validator>>

NextE2E ==
    \/ \E started \in BOOLEAN : SetupDriver(started)
    \/ \E page \in Pages : RunWorkflow(page)
    \/ GenerateReport

SpecE2E == InitE2E /\ [][NextE2E]_vars

(***************************************************************************)
(* What the properties below read off a file system.                       *)
(***************************************************************************)

\* The persisted state_history of a component (empty without one).
StateHistory(files, component_id) ==
    IF ~exists(files, state_file(component_id)) THEN <<>>
    ELSE DictGet(files[state_file(component_id)], "state_history", List(<<>>)).items

\* The persisted state of a component: a payload without one is a draft.
CurrentState(files, component_id) ==
    DictGet(files[state_file(component_id)], "state", Str("draft"))

\* The table of the rules file as loaded.
RulesTable(files) == MapGet(load_transition_rules(files), "transitions", EmptyMap)

\* A component exists when it has a state file; update_state and
\* validate_transition go on with it when the file's value is truthy.
HasStateFile(files, component_id) == exists(files, state_file(component_id))
HasPayload(files, component_id) ==
    HasStateFile(files, component_id) /\ Truthy(files[state_file(component_id)])

\* The prerequisites of a rule of the table.
Prerequisites(files, key) == MapGet(RulesTable(files)[key], "prerequisites", <<>>)

\* Whether a prerequisite is satisfied for a component, on its payload.
Satisfied(files, component_id, prerequisite) ==
    LET met == _check_prerequisite(files, component_id, prerequisite,
                                   files[state_file(component_id)])
    IN  ~met.raised /\ met.value

\* The prerequisites of a rule that are not satisfied, in the rule's order.
Unmet(files, component_id, key) ==
    LET Fails(prerequisite) == ~Satisfied(files, component_id, prerequisite)
    IN  SelectSeq(Prerequisites(files, key), Fails)

\* The name of a component's state, as the transition key holds it.
StateName(files, component_id) == pystr(CurrentState(files, component_id))

\* The kinds of prerequisite _check_prerequisite knows, and a prerequisite of
\* another kind or of none.
KnownTypes == {"file_exists", "property_set", "linked_resources"}
UnknownKind(prerequisite) == MapGet(prerequisite, "type", "None") \notin KnownTypes

UpdateReturned == call.op = "update_state" /\ ~result.raised
ValidateReturned == call.op = "validate_transition" /\ ~result.raised

(***************************************************************************)
(* C1.  An update of a component that has no state file returns            *)
(* success = false with the "not found" error, forced or not, and writes   *)
(* nothing: no file is created and no file is changed.                     *)
(***************************************************************************)
\* C1: a step that updates a component without a state file returns the
\* not-found result and leaves every file as it was.
C1_NotFoundWritesNothing ==
    [][(call'.op = "update_state" /\ ~exists(fs, state_file(call'.component_id)))
        => /\ result' = Return([success |-> FALSE,
                                error |-> "Component '" \o call'.component_id
                                          \o "' not found",
                                component_id |-> call'.component_id])
           /\ fs' = fs]_vars

\* A forced update of a component without a state file, beside one with.
C1_Witness ==
    /\ call.op = "update_state"
    /\ call.force
    /\ ~exists(fs, state_file(call.component_id))
    /\ exists(fs, state_file("button-primary"))
    /\ ~result.raised /\ ~result.value.success

(***************************************************************************)
(* C2.  For a pair of states whose key is not in the rules table,          *)
(* validate_transition returns (False, errors) with the one error that     *)
(* names the missing transition; it has read no state file and checked no  *)
(* prerequisite.                                                           *)
(***************************************************************************)
\* C2: the result of validating an undefined pair is the single error, and
\* the call left no read and no check in its effects.
C2_UndefinedTransition ==
    (/\ call.op = "validate_transition"
     /\ (call.from_state \o "_to_" \o call.to_state) \notin DOMAIN RulesTable(fs))
    => /\ result = Return([ok |-> FALSE,
                           errors |-> <<"No transition defined from '"
                                        \o call.from_state \o "' to '"
                                        \o call.to_state \o "'">>])
       /\ effects = <<>>

\* An undefined pair validated for a component that has a state file, under a
\* rules file that has rules.
C2_Witness ==
    /\ call.op = "validate_transition"
    /\ exists(fs, rules_file)
    /\ exists(fs, state_file(call.component_id))
    /\ (call.from_state \o "_to_" \o call.to_state) \notin DOMAIN RulesTable(fs)
    /\ ~result.value.ok

(***************************************************************************)
(* C3.  A forced update of an existing component returns success = true,   *)
(* leaves new_state as the persisted state, and a state_history one entry  *)
(* longer.  `covered` says which components the statement is about.        *)
(***************************************************************************)
ForcedUpdateStep(covered) ==
    (call'.op = "update_state" /\ call'.force /\ covered)
    => /\ ~result'.raised /\ result'.value.success
       /\ CurrentState(fs', call'.component_id) = Str(call'.new_state)
       /\ Len(StateHistory(fs', call'.component_id))
              = Len(StateHistory(fs, call'.component_id)) + 1

\* C3 as stated: a forced update of any component that has a state file
\* succeeds, sets the state and appends one entry.
C3_ForcedUpdateSucceeds ==
    [][ForcedUpdateStep(HasStateFile(fs, call'.component_id))]_vars

\* C3 for the components update_state goes on with: those whose state file
\* holds a value that is not empty.
C3_ForcedUpdateOfPayload ==
    [][ForcedUpdateStep(HasPayload(fs, call'.component_id))]_vars

(***************************************************************************)
(* C4.  For a defined transition of an existing component, the errors      *)
(* validate_transition returns are one per prerequisite of the rule that   *)
(* is not satisfied, in the rule's order: k of them for k unmet.           *)
(***************************************************************************)
ErrorPerUnmet(covered) ==
    (/\ ValidateReturned
     /\ transition_key(call.from_state, call.to_state) \in DOMAIN RulesTable(fs)
     /\ covered)
    => LET unmet == Unmet(fs, call.component_id,
                          transition_key(call.from_state, call.to_state))
       IN  result.value.errors =
               [i \in 1..Len(unmet) |->
                    "Prerequisite not met: " \o unmet[i]["description"]]

\* C4 as stated: for any component that has a state file, the errors of a
\* defined transition are one per unmet prerequisite, in order.
C4_ErrorPerUnmetPrerequisite ==
    ErrorPerUnmet(HasStateFile(fs, call.component_id))

\* C4 for the components whose state file holds a value that is not empty.
C4_ErrorPerUnmetOfPayload ==
    ErrorPerUnmet(HasPayload(fs, call.component_id))

C6_HistoryAppendOnly ==
    [][(call'.op = "update_state" /\ ~result'.raised /\ result'.value.success)
        => LET before == StateHistory(fs, call'.component_id)
               after == StateHistory(fs', call'.component_id)
           IN  /\ Len(after) = Len(before) + 1
               /\ SubSeq(after, 1, Len(before)) = before]_vars

\* A successful update of a component whose history was not empty.
C6_Witness ==
    /\ UpdateReturned /\ result.value.success
    /\ Len(StateHistory(fs, call.component_id)) >= 2

(***************************************************************************)
(* C7.  From empty histories, the persisted history of a component is a    *)
(* chain: it never gets shorter, a new entry's "from" is the state the     *)
(* component had just before the update, each entry's "from" is the "to"   *)
(* of the entry before it, and the last "to" is the component's state.     *)
(***************************************************************************)
HistoryIsChain ==
    \A c \in ComponentIds :
        exists(fs, state_file(c)) =>
            LET h == StateHistory(fs, c)
            IN  /\ \A i \in 2..Len(h) : h[i].f["from"] = h[i - 1].f["to"]
                /\ h # <<>> => h[Len(h)].f["to"] = CurrentState(fs, c)

HistoryGrowsFromState ==
    \A c \in ComponentIds :
        LET before == StateHistory(fs, c)
            after == StateHistory(fs', c)
        IN  /\ Len(after) >= Len(before)
            /\ Len(after) > Len(before) =>
                   after[Len(after)].f["from"] = CurrentState(fs, c)

\* C7: the history is a chain in every state, and every step keeps or
\* extends it with an entry from the state before the step.
C7_HistoryChain == []HistoryIsChain /\ [][HistoryGrowsFromState]_vars

\* A history of two entries that change the state.
C7_Witness ==
    LET h == StateHistory(fs, "button-primary")
    IN  /\ Len(h) >= 2
        /\ h[1].f["from"] # h[1].f["to"]
        /\ h[2].f["from"] # h[2].f["to"]

(***************************************************************************)
(* C8.  An update without force of an existing component whose validation  *)
(* fails returns success = false with the error "Transition validation     *)
(* failed", validation errors, the component's state as from_state and the *)
(* requested state as to_state, and leaves the persisted payload as it     *)
(* was.                                                                    *)
(***************************************************************************)

\* validate_transition returns False for the component's state and `to_state`.
ValidationFails(files, component_id, to_state) ==
    LET validation == validate_transition(files, component_id,
                                          StateName(files, component_id), to_state,
                                          load_transition_rules(files)).out
    IN  ~validation.raised /\ ~validation.value.ok

FailedValidationStep(covered) ==
    (/\ call'.op = "update_state" /\ ~call'.force
     /\ covered
     /\ ValidationFails(fs, call'.component_id, call'.new_state))
    => /\ ~result'.raised
       /\ DOMAIN result'.value = {"success", "error", "validation_errors",
                                  "component_id", "from_state", "to_state"}
       /\ result'.value.success = FALSE
       /\ result'.value.error = "Transition validation failed"
       /\ result'.value.validation_errors # <<>>
       /\ result'.value.from_state = CurrentState(fs, call'.component_id)
       /\ result'.value.to_state = call'.new_state
       /\ fs'[state_file(call'.component_id)] = fs[state_file(call'.component_id)]

\* C8 as stated: for any component that has a state file, an update whose
\* validation fails returns the validation failure and changes nothing.
C8_FailedValidationReported ==
    [][FailedValidationStep(HasStateFile(fs, call'.component_id))]_vars

\* C8 for the components whose state file holds a value that is not empty.
C8_FailedValidationOfPayload ==
    [][FailedValidationStep(HasPayload(fs, call'.component_id))]_vars

(***************************************************************************)
(* C9.  validate_transition returns ok = True exactly when its error list  *)
(* is empty, and that exactly when the key is in the rules table, the      *)
(* component exists and every prerequisite of the rule is satisfied; so a  *)
(* rule with no prerequisites validates for any existing component.        *)
(***************************************************************************)
OkIffAllMet(covered) ==
    ValidateReturned
    => LET key == transition_key(call.from_state, call.to_state)
       IN  /\ result.value.ok <=> result.value.errors = <<>>
           /\ result.value.ok <=>
                  /\ key \in DOMAIN RulesTable(fs)
                  /\ covered
                  /\ Unmet(fs, call.component_id, key) = <<>>

\* C9 as stated: ok is True exactly when the key is in the table, the
\* component has a state file and no prerequisite of the rule is unmet.
C9_OkIffAllPrerequisitesMet == OkIffAllMet(HasStateFile(fs, call.component_id))

\* C9 with, for the component, a state file holding a value that is not empty.
C9_OkIffAllMetOfPayload == OkIffAllMet(HasPayload(fs, call.component_id))

(***************************************************************************)
(* C10.  An update without force along a defined transition whose          *)
(* prerequisites are all satisfied returns success = true with the state   *)
(* before the call as from_state and new_state as to_state; new_state is   *)
(* then the persisted state and the history has one more record, from the  *)
(* previous state to new_state, with a timestamp.                          *)
(***************************************************************************)
ValidUpdateStep(covered) ==
    (/\ call'.op = "update_state" /\ ~call'.force
     /\ covered
     /\ transition_key(StateName(fs, call'.component_id), call'.new_state)
            \in DOMAIN RulesTable(fs)
     /\ Unmet(fs, call'.component_id,
              transition_key(StateName(fs, call'.component_id), call'.new_state))
            = <<>>)
    => LET before == StateHistory(fs, call'.component_id)
           after == StateHistory(fs', call'.component_id)
       IN  /\ ~result'.raised /\ result'.value.success
           /\ result'.value.from_state = CurrentState(fs, call'.component_id)
           /\ result'.value.to_state = call'.new_state
           /\ CurrentState(fs', call'.component_id) = Str(call'.new_state)
           /\ Len(after) = Len(before) + 1
           /\ SubSeq(after, 1, Len(before)) = before
           /\ DOMAIN after[Len(after)].f = {"from", "to", "timestamp"}
           /\ after[Len(after)].f["from"] = CurrentState(fs, call'.component_id)
           /\ after[Len(after)].f["to"] = Str(call'.new_state)

\* C10 as stated: for any component that has a state file, an update along a
\* defined transition with every prerequisite satisfied is applied.
C10_ValidUpdateApplied ==
    [][ValidUpdateStep(HasStateFile(fs, call'.component_id))]_vars

\* C10 for the components whose state file holds a value that is not empty.
C10_ValidUpdateOfPayload ==
    [][ValidUpdateStep(HasPayload(fs, call'.component_id))]_vars

(***************************************************************************)
(* C11.  A prerequisite whose type is none of file_exists, property_set    *)
(* and linked_resources, or that has no type, is never satisfied; so an    *)
(* update without force along a transition whose rule holds one never      *)
(* succeeds and never writes, whatever the payload and the files are.      *)
(***************************************************************************)
HasUnknownKind(files, key) ==
    \E i \in 1..Len(Prerequisites(files, key)) :
        UnknownKind(Prerequisites(files, key)[i])

UnknownKindUnsatisfied ==
    \A c \in ComponentIds, key \in DOMAIN RulesTable(fs) :
        HasStateFile(fs, c) =>
            \A i \in 1..Len(Prerequisites(fs, key)) :
                UnknownKind(Prerequisites(fs, key)[i]) =>
                    _check_prerequisite(fs, c, Prerequisites(fs, key)[i],
                                        fs[state_file(c)]) = Return(FALSE)

UnknownKindBlocksUpdate ==
    (/\ call'.op = "update_state" /\ ~call'.force
     /\ HasStateFile(fs, call'.component_id)
     /\ transition_key(StateName(fs, call'.component_id), call'.new_state)
            \in DOMAIN RulesTable(fs)
     /\ HasUnknownKind(fs, transition_key(StateName(fs, call'.component_id),
                                          call'.new_state)))
    => /\ ~(~result'.raised /\ result'.value.success)
       /\ fs' = fs

\* C11: a prerequisite of no known kind evaluates to False in every state,
\* and no update without force along a rule that holds one succeeds.
C11_UnknownKindNeverPasses ==
    []UnknownKindUnsatisfied /\ [][UnknownKindBlocksUpdate]_vars

\* An update without force refused for two prerequisites of no known kind,
\* one of them without a type.
C11_Witness ==
    /\ UpdateReturned /\ ~call.force
    /\ HasPayload(fs, call.component_id)
    /\ LET key == transition_key(StateName(fs, call.component_id), call.new_state)
       IN  /\ key \in DOMAIN RulesTable(fs)
           /\ \E i \in 1..Len(Prerequisites(fs, key)) :
                  "type" \notin DOMAIN Prerequisites(fs, key)[i]
    /\ ~result.value.success
    /\ Len(result.value.validation_errors) = 2

(***************************************************************************)
(* C12.  For a property_set prerequisite with dotted path p and any        *)
(* payload, _check_prerequisite returns False when a segment of p is       *)
(* absent from the payload at its position (a null or a value that is no   *)
(* mapping holds no segment) or when the value at the end of p is null,    *)
(* and True otherwise.                                                     *)
(***************************************************************************)

\* The segments of the dotted paths of the model.
Segments ==
    [p \in {"meta.owner", "meta", "owner"} |->
        CASE p = "meta.owner" -> <<"meta", "owner">>
          [] p = "meta"       -> <<"meta">>
          [] p = "owner"      -> <<"owner">>]

\* The value a path names in a payload: a segment is present where the value
\* reached so far is a mapping that has it as a key.
RECURSIVE PathValue(_, _)
PathValue(segments, value) ==
    IF segments = <<>> THEN [present |-> TRUE, value |-> value]
    ELSE IF value.t # "dict" THEN [present |-> FALSE]
    ELSE IF Head(segments) \notin DOMAIN value.f THEN [present |-> FALSE]
    ELSE PathValue(Tail(segments), value.f[Head(segments)])

\* Every value the path goes through is a mapping.
RECURSIVE ThroughMappings(_, _)
ThroughMappings(segments, value) ==
    \/ segments = <<>>
    \/ /\ value.t = "dict"
       /\ Head(segments) \in DOMAIN value.f
              => ThroughMappings(Tail(segments), value.f[Head(segments)])

PropertySetResult(covered) ==
    (/\ call.op = "_check_prerequisite"
     /\ MapGet(call.prerequisite, "type", "None") = "property_set"
     /\ covered)
    => LET named == PathValue(Segments[call.prerequisite["property"]],
                              fs[state_file(call.component_id)])
       IN  result = Return(named.present /\ named.value.t # "null")

\* C12 as stated: on any payload a property_set prerequisite evaluates to
\* whether its path names a value that is not null.
C12_PropertySetOnAnyPayload == PropertySetResult(TRUE)

\* C12 for the payloads in which the path goes through mappings only.
C12_PropertySetThroughMappings ==
    PropertySetResult(ThroughMappings(Segments[call.prerequisite["property"]],
                                      fs[state_file(call.component_id)]))

(***************************************************************************)
(* C13.  For a linked_resources prerequisite with link type t and any      *)
(* payload, _check_prerequisite returns True exactly when the payload's    *)
(* links hold t and links[t] has at least one entry: without a links       *)
(* field, without t in it, or with nothing under t, it returns False.      *)
(***************************************************************************)

\* The number of entries of a value: a list's items, a mapping's keys; a
\* null has none.
Entries(value) ==
    CASE value.t = "list" -> Len(value.items)
      [] value.t = "dict" -> Cardinality(DOMAIN value.f)
      [] value.t = "null" -> 0

\* The payload's links are a mapping that holds t with at least one entry.
HasLinked(payload, t) ==
    /\ "links" \in DOMAIN payload.f
    /\ payload.f["links"].t = "dict"
    /\ t \in DOMAIN payload.f["links"].f
    /\ Entries(payload.f["links"].f[t]) >= 1

\* The payload's links, where it has them, are a mapping, and links[t],
\* where they hold t, is a list or a mapping.
LinksOfShape(payload, t) ==
    "links" \in DOMAIN payload.f =>
        /\ payload.f["links"].t = "dict"
        /\ t \in DOMAIN payload.f["links"].f =>
               payload.f["links"].f[t].t \in {"list", "dict"}

LinkedResourcesResult(covered) ==
    (/\ call.op = "_check_prerequisite"
     /\ MapGet(call.prerequisite, "type", "None") = "linked_resources"
     /\ covered)
    => result = Return(HasLinked(fs[state_file(call.component_id)],
                                 call.prerequisite["link_type"]))

\* C13 as stated: on any payload a linked_resources prerequisite evaluates
\* to whether links[t] exists and has an entry.
C13_LinkedResourcesOnAnyPayload == LinkedResourcesResult(TRUE)

\* C13 for the payloads whose links are a mapping to lists or mappings.
C13_LinkedResourcesOfShape ==
    LinkedResourcesResult(LinksOfShape(fs[state_file(call.component_id)],
                                       call.prerequisite["link_type"]))

(***************************************************************************)
(* C14.  A file_exists prerequisite is satisfied exactly when the file its *)
(* path template names for the component exists under repo_root.  For a    *)
(* transition that requires this file alone, and a component whose payload *)
(* validate_transition loads: without the file the validation returns      *)
(* False with the one error that carries the prerequisite's description,   *)
(* and with the file (the caller has created it) the same validation       *)
(* returns True with no errors.                                            *)
(***************************************************************************)

\* The path of a template "<directory>{component_id}<suffix>" for a component.
PathFor(template, component_id) == template[1] \o component_id \o template[3]

\* Every file_exists prerequisite of the table evaluates to whether its file
\* is there.
FileExistsEvaluated ==
    \A c \in ComponentIds, key \in DOMAIN RulesTable(fs) :
        HasPayload(fs, c) =>
            \A i \in 1..Len(Prerequisites(fs, key)) :
                LET prerequisite == Prerequisites(fs, key)[i]
                IN  MapGet(prerequisite, "type", "None") = "file_exists" =>
                        _check_prerequisite(fs, c, prerequisite, fs[state_file(c)])
                            = Return(PathFor(prerequisite["path"], c) \in DOMAIN fs)

\* The rule of the key requires one file and nothing else.
RequiresFileAlone(files, key) ==
    /\ key \in DOMAIN RulesTable(files)
    /\ Len(Prerequisites(files, key)) = 1
    /\ MapGet(Prerequisites(files, key)[1], "type", "None") = "file_exists"

FileExistsDecidesValidation ==
    LET key == transition_key(call.from_state, call.to_state)
    IN  (/\ call.op = "validate_transition"
         /\ HasPayload(fs, call.component_id)
         /\ RequiresFileAlone(fs, key))
        => LET prerequisite == Prerequisites(fs, key)[1]
           IN  IF PathFor(prerequisite["path"], call.component_id) \in DOMAIN fs
               THEN result = Return([ok |-> TRUE, errors |-> <<>>])
               ELSE result = Return([ok |-> FALSE,
                                     errors |-> <<"Prerequisite not met: "
                                                  \o prerequisite["description"]>>])

LoadersDefault ==
    /\ ~exists(fs, definition_file) =>
           load_state_machine(fs) =
               [states |-> <<"draft", "design_complete", "implemented", "validated">>,
                transitions |-> EmptyMap]
    /\ ~exists(fs, rules_file) =>
           load_transition_rules(fs) = [transitions |-> EmptyMap]

UpdateWithoutRulesStep(covered) ==
    (/\ call'.op = "update_state" /\ ~call'.force
     /\ ~exists(fs, rules_file)
     /\ covered)
    => /\ result' =
              Return([success |-> FALSE,
                      error |-> "Transition validation failed",
                      validation_errors |->
                          <<"No transition defined from '"
                            \o StateName(fs, call'.component_id)
                            \o "' to '" \o call'.new_state \o "'">>,
                      component_id |-> call'.component_id,
                      from_state |-> CurrentState(fs, call'.component_id),
                      to_state |-> call'.new_state])
       /\ fs' = fs

\* C15 as stated: the loaders return their defaults without their files,
\* and without a rules file an update without force of any component that
\* has a state file is refused for the undefined transition alone.
C15_MissingConfigurationDefaults ==
    []LoadersDefault
    /\ [][UpdateWithoutRulesStep(HasStateFile(fs, call'.component_id))]_vars

\* C15 for the components whose state file holds a value that is not empty.
C15_MissingConfigurationOfPayload ==
    []LoadersDefault
    /\ [][UpdateWithoutRulesStep(HasPayload(fs, call'.component_id))]_vars

(***************************************************************************)
(* C16.  On well-formed state and rules files, whatever JSON values the    *)
(* payload holds, update_state and validate_transition return a result:    *)
(* not found, validation failure, undefined transition or success.  No     *)
(* call ends with an exception.                                            *)
(***************************************************************************)

\* The prerequisites of the rules file have the fields their types document.
WellFormedRules(files) ==
    \A key \in DOMAIN RulesTable(files) :
        \A i \in 1..Len(Prerequisites(files, key)) :
            LET prerequisite == Prerequisites(files, key)[i]
                prereq_type == MapGet(prerequisite, "type", "None")
            IN  /\ "description" \in DOMAIN prerequisite
                /\ prereq_type = "file_exists" => "path" \in DOMAIN prerequisite
                /\ prereq_type = "property_set" => "property" \in DOMAIN prerequisite
                /\ prereq_type = "linked_resources" =>
                       "link_type" \in DOMAIN prerequisite

\* C16: no update_state or validate_transition call on well-formed files
\* ends with an exception.
C16_NeverFaults ==
    (/\ call.op \in {"update_state", "validate_transition"}
     /\ WellFormedRules(fs))
    => ~result.raised

\* C16 for the components in whose payload the path meta.owner goes through
\* mappings only.
C16_NeverFaultsThroughMappings ==
    (/\ call.op \in {"update_state", "validate_transition"}
     /\ WellFormedRules(fs)
     /\ HasStateFile(fs, call.component_id) =>
            ThroughMappings(Segments["meta.owner"], fs[state_file(call.component_id)]))
    => ~result.raised

(***************************************************************************)
(* C17.  update_state reports "not found" only for a component that has no *)
(* state file: for a component whose state file exists, whatever JSON      *)
(* object it holds, the empty one included, the result is never the        *)
(* not-found error.                                                        *)
(***************************************************************************)
NotFoundResult(component_id) ==
    Return([success |-> FALSE,
            error |-> "Component '" \o component_id \o "' not found",
            component_id |-> component_id])

\* C17: no update_state step on a component that has a state file returns
\* the not-found result.
C17_NotFoundOnlyWithoutFile ==
    [][(call'.op = "update_state" /\ HasStateFile(fs, call'.component_id))
        => result' # NotFoundResult(call'.component_id)]_vars

\* C17 for the components whose state file holds a value that is not empty.
C17_NotFoundNeverOfPayload ==
    [][(call'.op = "update_state" /\ HasPayload(fs, call'.component_id))
        => result' # NotFoundResult(call'.component_id)]_vars

(***************************************************************************)
(* C18.  The components start in states of the state-machine definition;   *)
(* after any sequence of updates, forced or not, the persisted state of a  *)
(* component is one of the states load_state_machine enumerates.           *)
(***************************************************************************)

\* The states of the definition as loaded.
DefinedStates(files) ==
    {load_state_machine(files).states[i] :
         i \in 1..Len(load_state_machine(files).states)}

\* C18: the state of every component that has a state file is a state of the
\* definition.
C18_StateInDefinition ==
    \A c \in ComponentIds :
        HasStateFile(fs, c) =>
            /\ CurrentState(fs, c).t = "str"
            /\ CurrentState(fs, c).s \in DefinedStates(fs)

\* C18 for the updates that ask for a state of the definition.
C18_RequestedStateInDefinition ==
    [][(call'.op = "update_state" /\ HasStateFile(fs, call'.component_id)
        /\ CurrentState(fs, call'.component_id).s \in DefinedStates(fs)
        /\ call'.new_state \in DefinedStates(fs))
        => CurrentState(fs', call'.component_id).s \in DefinedStates(fs')]_vars

(***************************************************************************)
(* C19.  Persistence is last-writer-wins.  When two invocations of         *)
(* update_state on one component overlap so that both load the state file  *)
(* before either writes it, both return success and the file holds what    *)
(* the later writer wrote: the payload it loaded with its own state and    *)
(* its own history entry.  The state and the entry of the earlier writer   *)
(* are not in it, and the persisted history is one entry longer than the   *)
(* history both loaded, not two.                                           *)
(***************************************************************************)

\* Invocation i writes after invocation j wrote the same state file, and i
\* loaded the file before that write (j loaded it before its own).
WritesOver(i, j) ==
    /\ i # j
    /\ inflight[i].pc = "checked"
    /\ inflight'[i].pc = "returned"
    /\ inflight[j].pc = "returned"
    /\ inflight[j].wrote
    /\ inflight[j].component_id = inflight[i].component_id
    /\ inflight[i].read_at <= inflight[j].wrote_at

LastWriterWins ==
    \A i, j \in Invocations :
        WritesOver(i, j) =>
            LET c == inflight[i].component_id
                loaded == inflight[i].component_state.out
                loaded_history == DictGet(loaded, "state_history", List(<<>>)).items
                earlier == StateHistory(fs, c)
                later == StateHistory(fs', c)
            IN  /\ ~inflight[j].out.raised /\ inflight[j].out.value.success
                /\ ~result'.raised /\ result'.value.success
                /\ inflight[j].component_state.out = loaded
                /\ DOMAIN fs'[state_file(c)].f
                       = DOMAIN loaded.f \cup {"state", "state_history"}
                /\ \A key \in DOMAIN loaded.f \ {"state", "state_history"} :
                       fs'[state_file(c)].f[key] = loaded.f[key]
                /\ CurrentState(fs', c) = Str(inflight[i].new_state)
                /\ Len(earlier) = Len(loaded_history) + 1
                /\ Len(later) = Len(loaded_history) + 1
                /\ SubSeq(later, 1, Len(loaded_history)) = loaded_history
                /\ later[Len(later)] =
                       Dict([from |-> DictGet(loaded, "state", Str("draft")),
                             to |-> Str(inflight[i].new_state),
                             timestamp |-> Str(_get_timestamp(now))])
                /\ \A k \in 1..Len(later) : later[k] # earlier[Len(earlier)]

\* C19: the write of an invocation that loaded the state file before another
\* invocation wrote it leaves the loaded payload with its own change alone.
C19_LastWriterWins == [][LastWriterWins]_vars

\* Two invocations on one component, one of them validated, both loaded at
\* the start and both returned success with different states; the file
\* holds a history of one entry.
C19_Witness ==
    /\ \A i \in Invocations :
           /\ inflight[i].pc = "returned"
           /\ inflight[i].wrote
           /\ inflight[i].read_at = 0
           /\ inflight[i].component_id = "button-primary"
           /\ inflight[i].out.value.success
    /\ inflight[1].new_state # inflight[2].new_state
    /\ ~inflight[1].force
    /\ inflight[1].wrote_at < inflight[2].wrote_at
    /\ Len(StateHistory(fs, "button-primary")) = 1
    /\ CurrentState(fs, "button-primary") = Str(inflight[2].new_state)

(***************************************************************************)
(* C20.  The validator accepts a composedOf edge between two levelled      *)
(* DesignSpecNodes exactly when the child's level is allowed for the       *)
(* parent's: a primitive contains nothing, a molecule primitives, an       *)
(* organism molecules and primitives, a template organisms, molecules and  *)
(* primitives.  Every other pair of these levels is a violation, with an   *)
(* error message, and validate_all reports it.                             *)
(***************************************************************************)

\* What each level below the page may contain.
MayContain ==
    [level \in {"primitive", "molecule", "organism", "template"} |->
        CASE level = "primitive" -> {}
          [] level = "molecule"  -> {"primitive"}
          [] level = "organism"  -> {"primitive", "molecule"}
          [] level = "template"  -> {"primitive", "molecule", "organism"}]

\* The node of that id in the loaded graph is a DesignSpecNode with a level.
IsLevelled(self, node_id) ==
    /\ node_id.t = "str"
    /\ node_id.s \in DOMAIN self.nodes
    /\ DictGet(self.nodes[node_id.s], "type", None) = Str("DesignSpecNode")
    /\ "properties" \in DOMAIN self.nodes[node_id.s].f
    /\ "level" \in DOMAIN self.nodes[node_id.s].f["properties"].f
    /\ self.nodes[node_id.s].f["properties"].f["level"].t = "str"

LevelOf(self, node_id) == self.nodes[node_id.s].f["properties"].f["level"].s

\* A composedOf edge of the loaded graph between two components of the
\* levels below the page.
IsComposition(self, edge) ==
    /\ DictGet(edge, "type", None) = Str("composedOf")
    /\ {"from", "to"} \subseteq DOMAIN edge.f
    /\ IsLevelled(self, edge.f["from"]) /\ IsLevelled(self, edge.f["to"])
    /\ LevelOf(self, edge.f["from"]) \in DOMAIN MayContain
    /\ LevelOf(self, edge.f["to"]) \in DOMAIN MayContain

IsAllowed(self, edge) ==
    LevelOf(self, edge.f["to"]) \in MayContain[LevelOf(self, edge.f["from"])]

\* C20: validate_composition_edge returns valid for such an edge exactly
\* when the child's level is allowed, with an error message otherwise; and
\* after validate_all the edge is among the violations exactly when it is
\* not allowed.
C20_CompositionByLevel ==
    /\ (call.op = "validate_composition_edge" /\ IsComposition(validator, call.edge))
        => /\ result.value.is_valid <=> IsAllowed(validator, call.edge)
           /\ result.value.is_valid <=> result.value.error = None
    /\ call.op = "validate_all"
        => /\ \A k \in 1..Len(validator.edges) :
                  IsComposition(validator, validator.edges[k]) =>
                      ((\E j \in 1..Len(validator.violations) :
                            validator.violations[j].edge = validator.edges[k])
                       <=> ~IsAllowed(validator, validator.edges[k]))
           /\ (\E k \in 1..Len(validator.edges) :
                   /\ IsComposition(validator, validator.edges[k])
                   /\ ~IsAllowed(validator, validator.edges[k]))
               => result = Return(FALSE)

\* A graph in which an organism contains a molecule and that molecule the
\* organism: validate_all has reported the second edge alone.
C20_Witness ==
    /\ call.op = "validate_all"
    /\ validator.edges = <<Edge("header", "search-field", "composedOf"),
                           Edge("search-field", "header", "composedOf")>>
    /\ Len(validator.violations) = 1
    /\ validator.violations[1].edge = Edge("search-field", "header", "composedOf")
    /\ result = Return(FALSE)

(***************************************************************************)
(* C21.  A page contains components of every level: a composedOf edge      *)
(* whose parent is a DesignSpecNode of level page and whose child is a     *)
(* DesignSpecNode of level primitive, molecule, organism, template or page *)
(* is valid for validate_composition_edge and is never among the           *)
(* violations validate_all reports.                                        *)
(***************************************************************************)

\* A composedOf edge of the loaded graph from a page to a component whose
\* level is one of `child_levels`.
IsPageComposition(self, edge, child_levels) ==
    /\ DictGet(edge, "type", None) = Str("composedOf")
    /\ {"from", "to"} \subseteq DOMAIN edge.f
    /\ IsLevelled(self, edge.f["from"]) /\ IsLevelled(self, edge.f["to"])
    /\ LevelOf(self, edge.f["from"]) = "page"
    /\ LevelOf(self, edge.f["to"]) \in child_levels

\* No such edge is invalid for validate_composition_edge, none is among the
\* violations of validate_all.
PageEdgesPass(child_levels) ==
    /\ (call.op = "validate_composition_edge"
        /\ IsPageComposition(validator, call.edge, child_levels))
        => result.value = [is_valid |-> TRUE, error |-> None]
    /\ call.op = "validate_all"
        => \A k \in 1..Len(validator.edges) :
               IsPageComposition(validator, validator.edges[k], child_levels) =>
                   \A j \in 1..Len(validator.violations) :
                       validator.violations[j].edge # validator.edges[k]

\* C21: an edge from a page to a component of any of the five levels is
\* never reported as a violation.
C21_PageContainsAnyLevel == PageEdgesPass(Levels)

\* C21 for the children below the page level.
C21_PageContainsLowerLevels == PageEdgesPass(Levels \ {"page"})

(***************************************************************************)
(* C22.  validate_all reports every violation and nothing else.  After a   *)
(* call the violations are one entry for every edge of the graph that      *)
(* validate_composition_edge rejects, in the order of the edges, each with *)
(* the edge and its error; no edge of a type other than composedOf is      *)
(* among them; the call returns True exactly when there is none; and a     *)
(* call repeated on the same graph leaves the same list, not a longer one. *)
(***************************************************************************)

\* The edges that break the composition rules, in the order of the edges.
Rejected(self) ==
    LET Breaks(edge) == ~validate_composition_edge(self, edge).is_valid
    IN  SelectSeq(self.edges, Breaks)

\* The violations are the rejected edges, one entry each, in edge order, and
\* the return value says whether there is none.
ReportsExactlyTheViolations ==
    call.op = "validate_all" =>
        LET rejected == Rejected(validator)
        IN  /\ Len(validator.violations) = Len(rejected)
            /\ \A j \in 1..Len(rejected) :
                   /\ validator.violations[j].edge = rejected[j]
                   /\ validator.violations[j].error =
                          validate_composition_edge(validator, rejected[j]).error
                   /\ validator.violations[j].error # None
                   /\ DictGet(rejected[j], "type", None) = Str("composedOf")
            /\ result = Return(Len(validator.violations) = 0)
            /\ get_exit_code(validator) = (IF result.value THEN 0 ELSE 1)

\* A call that follows a call on the same graph leaves the list as it was.
RepeatedCallSameList ==
    (call.op = "validate_all" /\ call'.op = "validate_all")
        => /\ validator'.violations = validator.violations
           /\ result' = result

\* C22: both, at every call of validate_all.
C22_ReportsExactlyTheViolations ==
    []ReportsExactlyTheViolations /\ [][RepeatedCallSameList]_vars

\* validate_all has run twice in a row on a graph of two edges that both
\* break the rules: the list holds the two, in the order of the edges.
C22_Witness ==
    /\ call.op = "validate_all"
    /\ repeats >= 1
    /\ validator.edges = <<Edge("search-field", "header", "composedOf"),
                           Edge("button", "button", "composedOf")>>
    /\ Len(validator.violations) = 2
    /\ validator.violations[1].edge = Edge("search-field", "header", "composedOf")
    /\ validator.violations[2].edge = Edge("button", "button", "composedOf")
    /\ result = Return(FALSE)

(***************************************************************************)
(* C23.  validate_transition looks the transition up before it looks for   *)
(* the component.  For a component that does not exist and a pair of       *)
(* states without a rule, the one error is "No transition defined".  The   *)
(* "not found" error is returned, alone, only for a defined transition of  *)
(* a component that does not exist.  `missing` says which components do    *)
(* not exist.                                                              *)
(***************************************************************************)
NotFoundError(component_id) == "Component '" \o component_id \o "' not found"

LookupBeforeComponent(missing) ==
    ValidateReturned
    => LET key == transition_key(call.from_state, call.to_state)
           errors == result.value.errors
       IN  /\ (key \notin DOMAIN RulesTable(fs) /\ missing)
               => errors = <<"No transition defined from '" \o call.from_state
                             \o "' to '" \o call.to_state \o "'">>
           /\ (\E k \in 1..Len(errors) : errors[k] = NotFoundError(call.component_id))
               => /\ key \in DOMAIN RulesTable(fs)
                  /\ missing
                  /\ errors = <<NotFoundError(call.component_id)>>
                  /\ \A k \in 1..Len(effects) : effects[k].op # "check"

\* C23 as stated: a component does not exist when it has no state file.
C23_LookupBeforeComponent == LookupBeforeComponent(~HasStateFile(fs, call.component_id))

\* C23 with, for the components that exist, those whose state file holds a
\* value that is not empty.
C23_LookupBeforePayload == LookupBeforeComponent(~HasPayload(fs, call.component_id))

(***************************************************************************)
(* C24.  Without force a component's state changes only along entries of   *)
(* the rules table.  An update without force that writes appends one       *)
(* record (from, to), from the state the component had to the requested    *)
(* state, whose key "<from>_to_<to>" is in the table, and leaves the table *)
(* as it was; every other update without force leaves the files as they    *)
(* were.  So the states reached without force are those the table leads to *)
(* from the initial state.  And every entry of the table is honoured when  *)
(* its prerequisites hold, validated_to_draft like any other.              *)
(***************************************************************************)

\* A step of update_state without force changes the files only by a record
\* whose key is in the table.
AlongTableEntries ==
    (call'.op = "update_state" /\ ~call'.force /\ fs' # fs)
    => LET c == call'.component_id
           before == StateHistory(fs, c)
           after == StateHistory(fs', c)
           record == after[Len(after)]
       IN  /\ HasStateFile(fs, c)
           /\ Len(after) = Len(before) + 1
           /\ record.f["from"] = CurrentState(fs, c)
           /\ record.f["to"] = Str(call'.new_state)
           /\ CurrentState(fs', c) = record.f["to"]
           /\ transition_key(pystr(record.f["from"]), pystr(record.f["to"]))
                  \in DOMAIN RulesTable(fs)
           /\ RulesTable(fs') = RulesTable(fs)
           /\ \A path \in DOMAIN fs : path # state_file(c) => fs'[path] = fs[path]
           /\ DOMAIN fs' = DOMAIN fs

\* C24 as stated: the updates without force follow the table, and an entry
\* whose prerequisites hold is honoured for any component that has a state
\* file.
C24_OnlyAlongTableEntries ==
    [][AlongTableEntries /\ ValidUpdateStep(HasStateFile(fs, call'.component_id))]_vars

\* C24 with, for the entries honoured, the components whose state file holds
\* a value that is not empty.
C24_AlongTableEntriesOfPayload ==
    [][AlongTableEntries /\ ValidUpdateStep(HasPayload(fs, call'.component_id))]_vars

\* The updates without force follow the table, whatever the state file holds.
C24_UnforcedFollowsTable == [][AlongTableEntries]_vars

\* A validated component has gone back to draft without force, along the
\* entry validated_to_draft of the table.
C24_NonMonotonicHonoured ==
    /\ call.op = "update_state" /\ ~call.force /\ call.new_state = "draft"
    /\ ~result.raised /\ result.value.success
    /\ result.value.from_state = Str("validated")
    /\ "validated_to_draft" \in DOMAIN RulesTable(fs)

(***************************************************************************)
(* C25.  A composedOf edge one of whose endpoints is no known component is *)
(* skipped: validate_composition_edge returns it valid, without an error,  *)
(* and validate_all never reports it.  An endpoint is no known component   *)
(* when it is missing from the graph, is no DesignSpecNode, has no level,  *)
(* or has a level that is none of primitive, molecule, organism, template  *)
(* and page.  `known_levels` says which levels make a component known.     *)
(***************************************************************************)

\* The node of that id is a DesignSpecNode of the graph with one of the levels.
IsKnownComponent(self, node_id, known_levels) ==
    IsLevelled(self, node_id) /\ LevelOf(self, node_id) \in known_levels

\* A composedOf edge with an endpoint that is no known component.
HasUnknownEndpoint(self, edge, known_levels) ==
    /\ DictGet(edge, "type", None) = Str("composedOf")
    /\ \/ ~IsKnownComponent(self, DictGet(edge, "from", None), known_levels)
       \/ ~IsKnownComponent(self, DictGet(edge, "to", None), known_levels)

\* No such edge is invalid for validate_composition_edge, none is among the
\* violations of validate_all.
UnknownEndpointsSkipped(known_levels) ==
    /\ (call.op = "validate_composition_edge"
        /\ HasUnknownEndpoint(validator, call.edge, known_levels))
        => result.value = [is_valid |-> TRUE, error |-> None]
    /\ call.op = "validate_all"
        => \A k \in 1..Len(validator.edges) :
               HasUnknownEndpoint(validator, validator.edges[k], known_levels) =>
                   \A j \in 1..Len(validator.violations) :
                       validator.violations[j].edge # validator.edges[k]

\* The levels the graphs give their nodes, the five and the others.
GraphLevels ==
    {GraphNodes[k].f["properties"].f["level"].s :
         k \in {i \in 1..Len(GraphNodes) :
                    "level" \in DOMAIN GraphNodes[i].f["properties"].f}}

\* C25 as stated: the known components are those of the five levels.
C25_UnknownEndpointsSkipped == UnknownEndpointsSkipped(Levels)

\* C25 with, for the known components, the DesignSpecNodes that have a
\* level, whatever it is.
C25_UnlevelledEndpointsSkipped == UnknownEndpointsSkipped(GraphLevels)

\* Edges to a missing node, from a node that is no DesignSpecNode and to a
\* DesignSpecNode without a level have been validated and skipped.
C25_SkippedEdges ==
    /\ call.op = "validate_all"
    /\ validator.violations = <<>>
    /\ \E k \in 1..Len(validator.edges) :
           validator.edges[k] \in {Edge("search-field", "ghost", "composedOf"),
                                   Edge("readme", "search-field", "composedOf"),
                                   Edge("search-field", "sketch", "composedOf")}

(***************************************************************************)
(* C26.  An update that returns success = true changes, of the files, the  *)
(* state file of its component alone, and of that payload the fields state *)
(* and state_history alone: every other field (component_id, links, meta,  *)
(* ...) is written back with the value it had, no field is dropped or      *)
(* added, and the state file of the other component is as it was.          *)
(***************************************************************************)
UpdatedFields == {"state", "state_history"}

OnlyStateAndHistoryChange ==
    (call'.op = "update_state" /\ ~result'.raised /\ result'.value.success)
    => LET c == call'.component_id
           before == fs[state_file(c)]
           after == fs'[state_file(c)]
       IN  /\ DOMAIN fs' = DOMAIN fs
           /\ \A path \in DOMAIN fs : path # state_file(c) => fs'[path] = fs[path]
           /\ after.t = "dict"
           /\ DOMAIN after.f = DOMAIN before.f \cup UpdatedFields
           /\ \A key \in DOMAIN before.f \ UpdatedFields : after.f[key] = before.f[key]

\* C26: every successful step of update_state changes these two fields alone.
C26_OnlyStateAndHistoryChange == [][OnlyStateAndHistoryChange]_vars

\* A component with an owner and a design link has been updated, after
\* another component that has a state file of its own: both still have the
\* fields they started with.
C26_Witness ==
    /\ call.op = "update_state" /\ ~result.raised /\ result.value.success
    /\ call.component_id = "button-primary"
    /\ DictGet(fs[state_file("button-primary")], "meta", None) = Dict([owner |-> Str("me")])
    /\ DictGet(fs[state_file("button-primary")], "links", None) =
           Dict([design |-> List(<<Str("design")>>)])
    /\ Len(StateHistory(fs, "button-primary")) = 1
    /\ Len(StateHistory(fs, "card-basic")) = 1
    /\ DictGet(fs[state_file("card-basic")], "component_id", None) = Str("card-basic")
    /\ DictGet(fs[state_file("card-basic")], "links", None) = Dict(EmptyMap)

(***************************************************************************)
(* C27.  An invocation of update_state without force works on one payload: *)
(* the payload on which validate_transition evaluates the prerequisites is *)
(* the payload line 185 loaded, the one that is then changed and written,  *)
(* and the from_state that picks the rule is that payload's state; this    *)
(* also when another invocation writes the state file between the reads.   *)
(***************************************************************************)

\* Invocation i takes its validation step, for a transition of the table.
Validates(i) ==
    /\ inflight[i].pc = "loaded"
    /\ inflight'[i].pc \in {"checked", "returned"}
    /\ ~inflight[i].force
    /\ Truthy(inflight[i].component_state.out)
    /\ transition_key(pystr(DictGet(inflight[i].component_state.out, "state",
                                    Str("draft"))),
                      inflight[i].new_state) \in DOMAIN RulesTable(fs)

\* The payload validate_transition reads at line 114 in that step.
EvaluatedPayload(i) == get_component_state(fs, inflight[i].component_id).out

\* The rule is picked by the state of the payload loaded: a failure names it
\* as from_state, and a go-ahead is for a key of the table.
FromStateOfLoadedPayload ==
    \A i \in Invocations :
        (/\ inflight[i].pc = "loaded" /\ inflight'[i].pc \in {"checked", "returned"}
         /\ ~inflight[i].force /\ Truthy(inflight[i].component_state.out))
        => LET loaded == inflight[i].component_state.out
               from_state == DictGet(loaded, "state", Str("draft"))
               key == transition_key(pystr(from_state), inflight[i].new_state)
           IN  /\ inflight'[i].pc = "checked" => key \in DOMAIN RulesTable(fs)
               /\ (inflight'[i].pc = "returned" /\ ~result'.raised)
                   => /\ result'.value.from_state = from_state
                      /\ key \notin DOMAIN RulesTable(fs)
                          => result'.value.validation_errors =
                                 <<"No transition defined from '" \o pystr(from_state)
                                   \o "' to '" \o inflight[i].new_state \o "'">>

\* The prerequisites are evaluated on the payload loaded.
EvaluatesLoadedPayload ==
    \A i \in Invocations :
        Validates(i) => EvaluatedPayload(i) = inflight[i].component_state.out

\* C27 as stated.
C27_OnePayloadPerInvocation ==
    [][FromStateOfLoadedPayload /\ EvaluatesLoadedPayload]_vars

\* The from_state is that of the payload loaded, whatever is written between
\* the reads.
C27_FromStateOfLoadedPayload == [][FromStateOfLoadedPayload]_vars

\* The payload evaluated and the payload loaded differ in the state and the
\* history at most.
C27_EvaluatedDiffersInStateAlone ==
    [][\A i \in Invocations :
           Validates(i) =>
               LET loaded == inflight[i].component_state.out
                   evaluated == EvaluatedPayload(i)
               IN  /\ evaluated.t = "dict"
                   /\ DOMAIN loaded.f \ UpdatedFields \subseteq DOMAIN evaluated.f
                   /\ DOMAIN evaluated.f \subseteq DOMAIN loaded.f \cup UpdatedFields
                   /\ \A key \in DOMAIN loaded.f \ UpdatedFields :
                          evaluated.f[key] = loaded.f[key]]_vars

(***************************************************************************)
(* C28.  The transition key identifies its pair of states: two different   *)
(* pairs of state names have different keys "<from>_to_<to>", so the rule  *)
(* validate_transition consults for a pair is a rule of that pair, never   *)
(* the rule written for another.  `names` are the state names the          *)
(* statement is about.                                                     *)
(***************************************************************************)
KeyIdentifiesPair(names) ==
    (/\ call.op = "validate_transition"
     /\ call.from_state \in names /\ call.to_state \in names)
    => /\ \A from_state \in names, to_state \in names :
              transition_key(from_state, to_state)
                  = transition_key(call.from_state, call.to_state)
              => (from_state = call.from_state /\ to_state = call.to_state)
       /\ result.value.ok => <<call.from_state, call.to_state>> \in RulePairs

\* C28 as stated: for any state names.
C28_KeyIdentifiesPair == KeyIdentifiesPair(StateNames)

\* C28 for the state names that do not hold "_to_".
C28_KeyIdentifiesPlainPair ==
    KeyIdentifiesPair({join_with("_to_", parts) : parts \in {p \in NameParts : Len(p) = 1}})

\* The rule of a pair has been consulted for that pair, and validated it.
C28_RuleOfItsPair ==
    /\ call.op = "validate_transition"
    /\ <<call.from_state, call.to_state>> = <<"review", "ready_to_ship">>
    /\ result.value.ok

(***************************************************************************)
(* C29.  The composition rules are a strict hierarchy, primitive below     *)
(* molecule below organism below template below page: every level a level *)
(* may contain is strictly below it.  So when validate_all returns True on *)
(* a graph whose composedOf edges join DesignSpecNodes that have a level,  *)
(* these edges form no cycle and none joins two nodes of one level.        *)
(***************************************************************************)
Rank ==
    [level \in Levels |->
        CASE level = "primitive" -> 1
          [] level = "molecule"  -> 2
          [] level = "organism"  -> 3
          [] level = "template"  -> 4
          [] level = "page"      -> 5]

\* The composedOf edges of the loaded graph.
ComposedEdges(self) ==
    {self.edges[k] : k \in {i \in 1..Len(self.edges) :
                                DictGet(self.edges[i], "type", None) = Str("composedOf")}}

\* These edges as pairs (parent, child).
Composed(self) == {<<edge.f["from"], edge.f["to"]>> : edge \in ComposedEdges(self)}

\* The pairs (ancestor, descendant) joined by a path of at most n + 1 edges.
RECURSIVE Contains(_, _)
Contains(pairs, n) ==
    IF n = 0 THEN pairs
    ELSE LET shorter == Contains(pairs, n - 1)
         IN  shorter \cup {<<step[1][1], step[2][2]>> :
                               step \in {s \in shorter \X pairs : s[1][2] = s[2][1]}}

\* Every level a level may contain is strictly below it.
StrictHierarchy ==
    \A parent \in DOMAIN COMPOSITION_RULES :
        \A child \in COMPOSITION_RULES[parent] : Rank[child] < Rank[parent]

\* Every composedOf edge of the loaded graph joins two DesignSpecNodes that
\* have a level.
GraphOfLevelled(self) ==
    \A edge \in ComposedEdges(self) :
        /\ {"from", "to"} \subseteq DOMAIN edge.f
        /\ IsLevelled(self, edge.f["from"]) /\ IsLevelled(self, edge.f["to"])

Failures(results) == {k \in 1..Len(results) : results[k].status = "FAIL"}

Refusals(returns) == {k \in 1..Len(returns) : ~returns[k]}

SuccessOnlyIfAllPassed(covered) ==
    covered =>
        /\ Cardinality(Failures(runner.results)) = Cardinality(Refusals(runner.returns))
        /\ \A k \in Refusals(runner.returns) :
               \E j \in Failures(runner.results) :
                   runner.results[j].workflow = runner.requested[k]
        /\ call.op = "generate_report"
            => /\ fs[report_path].summary.failed
                      = Cardinality(Refusals(runner.returns))
               /\ result.value <=> runner.exit = 0
        /\ runner.exit = 0
            => /\ call.op = "generate_report" /\ result = Return(TRUE)
               /\ Len(runner.returns) = Len(runner.requested)
               /\ Refusals(runner.returns) = {}

\* C30 as stated: whatever workflows were asked for.
C30_SuccessOnlyIfAllPassed == SuccessOnlyIfAllPassed(TRUE)

\* C30 for the runs whose workflows all have a method.
C30_SuccessOfKnownWorkflows ==
    SuccessOnlyIfAllPassed(
        \A k \in 1..Len(runner.requested) : runner.requested[k] \in TestMethods)

\* All six workflows were run, one failed, and the process exited 1 with the
\* failure counted in the report.
C30_FailureReported ==
    /\ call.op = "generate_report"
    /\ runner.requested = Workflows
    /\ Cardinality(Refusals(runner.returns)) = 1
    /\ fs[report_path].summary = [total |-> 6, passed |-> 5, failed |-> 1]
    /\ runner.exit = 1

=============================================================================
